---- MODULE Spec2Model ----
(***************************************************************************)
(* A model of the in-memory storage substrate of xann:                     *)
(*   - IdManager   (xann/store/id_manager.h, id_manager.cc)                 *)
(*   - VectorBatch (xann/store/vector_batch.h, vector_batch.cc)             *)
(*   - MemStore    (xann/store/store.h, store.cc)                           *)
(* Local ids are 0-based in the code; the pool _ids is modelled as a TLA+   *)
(* sequence, so slot lid of the pool is ids[lid + 1].                       *)
(***************************************************************************)
EXTENDS Integers, Sequences, FiniteSets, TLC

(***************************************************************************)
(* Program constants.                                                      *)
(***************************************************************************)
\* IdManager::kInvalidId, the maximum uint64_t, i.e. (uint64_t)-1. It is only
\* ever compared for equality; -1 keeps it apart from every label and lid.
kInvalidId == -1

\* IdManager::kDefaultGrowth
kDefaultGrowth == 256

\* LabelEntity::kNoneStatus
kNoneStatus == 0

\* xann::kTombstone
kTombstone == 1

\* the null pointer: _data{nullptr}; the slabs of the heap have addresses 1, 2, ...
nullptr == 0

(***************************************************************************)
(* Bounds of the model.                                                    *)
(***************************************************************************)
\* labels handed to the operations are 0..MaxLabel
MaxLabel == 1
\* lids handed to the lid-keyed operations are 0..MaxLid
MaxLid == 1
\* initialize adopts pools of 0..MaxPool slots
MaxPool == 1
\* reserved_id given to initialize is 0..MaxReserved
MaxReserved == 1
\* next_id given to initialize is at most reserved_id + MaxActive
MaxActive == 1
\* a behaviour makes at most MaxCalls calls
MaxCalls == 5
\* option.batch_size is 1..MaxBatchSize
MaxBatchSize == 2
\* option.max_elements is 1..MaxElements
MaxElements == 2
\* vector_space->vector_byte_size is 1..MaxVectorBytes
MaxVectorBytes == 1
\* the snapshot ids handed to the mutators are 1..MaxSnapshot
MaxSnapshot == 2
\* the threads that call into one store
MaxThreads == 2

\* the calls made on the MetricRegistry and the VectorSpace factory
MaxRegistryCalls == 3

\* a behaviour that fills a store makes at most MaxFillCalls calls
MaxFillCalls == 260
\* option.max_elements of the store that is filled
FillElements == 260
\* option.batch_size of the store that is filled
FillBatchSize == 512
\* the vectors given to the cosine kernel have 0..MaxCosineDim elements
MaxCosineDim == 5
\* each element is an integer of -MaxCosineElem..MaxCosineElem
MaxCosineElem == 1
Labels == 0..MaxLabel
Lids == 0..MaxLid
Statuses == {kNoneStatus, kTombstone}
Threads == 1..MaxThreads

(***************************************************************************)
(* Containers.                                                             *)
(***************************************************************************)
\* the smallest element of a non-empty btree_set<uint64_t>: *_free_ids.begin()
SetBegin(s) == CHOOSE x \in s : \A y \in s : x <= y

SetMax(s) == CHOOSE x \in s : \A y \in s : y <= x

\* flat_hash_map<uint64_t, uint64_t>::operator[](k) = v
MapPut(m, k, v) == [x \in (DOMAIN m) \cup {k} |-> IF x = k THEN v ELSE m[x]]

\* flat_hash_map<uint64_t, uint64_t>::erase(k)
MapErase(m, k) == [x \in (DOMAIN m) \ {k} |-> m[x]]

EmptyMap == [x \in {} |-> 0]

(***************************************************************************)
(* LabelEntity and IdManager.                                              *)
(***************************************************************************)
\* a default-constructed LabelEntity
LabelEntity == [label |-> kInvalidId, status |-> kNoneStatus]

\* a default-constructed IdManager
IdManager ==
    [free_ids    |-> {},
     ids         |-> << >>,
     next_id     |-> 0,
     reserved_id |-> 0,
     id_map      |-> EmptyMap,
     initialized |-> FALSE]

\* _ids.size()
Capacity(m) == Len(m.ids)

\* IdManager::resize(n): append default entities up to n slots
resize(m, n) ==
    IF n > Len(m.ids)
    THEN [m EXCEPT !.ids = m.ids \o [i \in 1..(n - Len(m.ids)) |-> LabelEntity]]
    ELSE m

\* IdManager::grow(n)
grow(m, n) ==
    [m EXCEPT !.ids = m.ids \o [i \in 1..n |-> LabelEntity]]

\* the scan of initialize over [reserved_id, next_id): sentinel slots go to
\* the free set, every other slot's label is mapped to its lid (a later slot
\* with the same label overwrites the earlier entry)
InitScan(m) ==
    LET range  == {i \in m.reserved_id..(m.next_id - 1) : TRUE}
        frees  == {i \in range : m.ids[i + 1].label = kInvalidId}
        used   == range \ frees
        labels == {m.ids[i + 1].label : i \in used}
    IN  [m EXCEPT !.free_ids = m.free_ids \cup frees,
                  !.id_map = [l \in (DOMAIN m.id_map) \cup labels |->
                                 IF l \in labels
                                 THEN SetMax({i \in used : m.ids[i + 1].label = l})
                                 ELSE m.id_map[l]]]

\* IdManager::initialize(map, reserved_id, next_id)
initialize(m, map, reserved_id, next_id) ==
    IF m.initialized
    THEN m
    ELSE LET m1 == [m EXCEPT !.ids = map, !.next_id = next_id, !.reserved_id = reserved_id]
             m2 == IF Len(m1.ids) < m1.next_id
                   THEN resize(m1, m1.next_id + kDefaultGrowth)
                   ELSE m1
         IN  [InitScan(m2) EXCEPT !.initialized = TRUE]

\* shrink_next_id that does not stop at reserved_id
RECURSIVE shrink_next_id_unguarded(_)
shrink_next_id_unguarded(m) ==
    IF (m.next_id - 1) \in m.free_ids
    THEN shrink_next_id_unguarded([m EXCEPT !.free_ids = @ \ {m.next_id - 1},
                                            !.next_id = @ - 1])
    ELSE m

\* shrink_next_id with an if in place of its while: one step at most
shrink_next_id_once(m) ==
    IF m.next_id > m.reserved_id /\ (m.next_id - 1) \in m.free_ids
    THEN [m EXCEPT !.free_ids = @ \ {m.next_id - 1}, !.next_id = @ - 1]
    ELSE m

\* IdManager::shrink_next_id()
RECURSIVE shrink_next_id(_)
shrink_next_id(m) ==
    IF m.next_id > m.reserved_id /\ (m.next_id - 1) \in m.free_ids
    THEN shrink_next_id([m EXCEPT !.free_ids = @ \ {m.next_id - 1},
                                  !.next_id = @ - 1])
    ELSE m

\* the lid alloc_id takes from a non-empty free set: the largest one
FreeLidLargest(free_ids) == SetMax(free_ids)

\* the lid alloc_id takes from a non-empty free set: *_free_ids.begin()
FreeLid(free_ids) == SetBegin(free_ids)

\* a label map in which alloc_id finds no label
AlreadyMappedNever(m, label) == FALSE

\* alloc_id's test for a label that has a lid: _id_map.find(label) != end()
AlreadyMapped(m, label) == label \in DOMAIN m.id_map

\* a pool that counts as used up only once next_id has passed its capacity
ExhaustedLate(m) == m.next_id > Len(m.ids)

\* alloc_id's test for a pool with no slot left: _next_id >= _ids.size()
Exhausted(m) == m.next_id >= Len(m.ids)

\* IdManager::alloc_id(label): the manager afterwards, the status and the lid
alloc_id(m, label) ==
    IF AlreadyMapped(m, label)
    THEN [m |-> m, status |-> "already_exists", value |-> 0]
    ELSE IF m.free_ids # {}
    THEN LET lid == FreeLid(m.free_ids)
         IN  [m |-> [m EXCEPT !.free_ids = @ \ {lid},
                              !.id_map = MapPut(@, label, lid),
                              !.ids[lid + 1].label = label],
              status |-> "ok", value |-> lid]
    ELSE IF Exhausted(m)
    THEN [m |-> m, status |-> "resource_exhausted", value |-> 0]
    ELSE LET lid == m.next_id
         IN  [m |-> [m EXCEPT !.next_id = @ + 1,
                              !.id_map = MapPut(@, label, lid),
                              !.ids[lid + 1].label = label],
              status |-> "ok", value |-> lid]

\* free_id that erases the label and resets its slot without putting the lid
\* into the free set
free_id_without_insert(m, label) ==
    IF label \notin DOMAIN m.id_map
    THEN m
    ELSE LET lid == m.id_map[label]
             m1  == [m EXCEPT !.id_map = MapErase(@, label)]
         IN  IF lid >= Len(m1.ids)
             THEN m1
             ELSE shrink_next_id([m1 EXCEPT !.ids[lid + 1] = LabelEntity])

\* IdManager::free_id(label)
free_id(m, label) ==
    IF label \notin DOMAIN m.id_map
    THEN m
    ELSE LET lid == m.id_map[label]
             m1  == [m EXCEPT !.id_map = MapErase(@, label)]
         IN  IF lid >= Len(m1.ids)
             THEN m1
             ELSE shrink_next_id([m1 EXCEPT !.ids[lid + 1] = LabelEntity,
                                            !.free_ids = @ \cup {lid}])

\* free_local_id that resets the slot's label and leaves its status alone
free_local_id_keep_status(m, lid) ==
    IF lid >= Len(m.ids)
    THEN m
    ELSE shrink_next_id([m EXCEPT !.id_map = MapErase(@, m.ids[lid + 1].label),
                                  !.ids[lid + 1].label = kInvalidId,
                                  !.free_ids = @ \cup {lid}])

\* IdManager::free_local_id(lid)
free_local_id(m, lid) ==
    IF lid >= Len(m.ids)
    THEN m
    ELSE shrink_next_id([m EXCEPT !.id_map = MapErase(@, m.ids[lid + 1].label),
                                  !.ids[lid + 1] = LabelEntity,
                                  !.free_ids = @ \cup {lid}])

\* IdManager::set_reserved_id(lid, label), past its KCHECK(lid < _reserved_id)
set_reserved_id(m, lid, label) ==
    [m EXCEPT !.id_map = MapPut(@, lid, label)]

\* IdManager::set_local_id_status(lid, status)
\* set_local_id_status, were it to write the whole slot instead of its status
set_local_id_status_whole_slot(m, lid, status) ==
    IF lid >= Len(m.ids)
    THEN m
    ELSE [m EXCEPT !.ids[lid + 1] = [label |-> kInvalidId, status |-> status]]

set_local_id_status(m, lid, status) ==
    IF lid >= Len(m.ids)
    THEN m
    ELSE [m EXCEPT !.ids[lid + 1].status = status]

\* IdManager::set_label_status(label, status)
set_label_status(m, label, status) ==
    IF label \notin DOMAIN m.id_map
    THEN m
    ELSE set_local_id_status(m, m.id_map[label], status)

(***************************************************************************)
(* The heap the aligned allocator hands slabs out of. heap[a] is the slab  *)
(* at address a: its size in bytes, whether it is allocated now, how often *)
(* it was deallocated since it was last allocated, and its bytes.          *)
(***************************************************************************)
\* the value of a byte that was never written
Indeterminate == "indeterminate"

\* a freshly allocated slab of size bytes: its contents are not initialised
Slab(size) ==
    [size  |-> size,
     live  |-> TRUE,
     frees |-> 0,
     bytes |-> [k \in 1..size |-> Indeterminate]]

\* what aligned_allocator::allocate(size) can do: throw std::bad_alloc
\* (nullptr stands for it), return a fresh address, or return the address of
\* a slab of that size that was deallocated before
AllocChoices(heap, size) ==
    {nullptr, Len(heap) + 1}
        \cup {a \in 1..Len(heap) : ~heap[a].live /\ heap[a].size = size}

\* aligned_allocator::allocate(size) returning address a
HeapAllocate(heap, a, size) ==
    IF a = Len(heap) + 1
    THEN Append(heap, Slab(size))
    ELSE [heap EXCEPT ![a] = Slab(size)]

\* aligned_allocator::deallocate(a, n); the count of deallocations stops at 2,
\* which stands for "more than once"
HeapDeallocate(heap, a) ==
    [heap EXCEPT ![a].live = FALSE,
                 ![a].frees = IF @ >= 2 THEN 2 ELSE @ + 1]

\* memcpy(dst, src, n) with dst the byte at offset off of the slab at addr
Memcpy(heap, addr, off, src, n) ==
    IF addr = nullptr \/ n = 0
    THEN heap
    ELSE [heap EXCEPT ![addr].bytes =
             [k \in 1..Len(@) |-> IF k > off /\ k <= off + n THEN src[k - off] ELSE @[k]]]

\* memset(dst, 0, n) with dst the byte at offset off of the slab at addr
Memset0(heap, addr, off, n) ==
    IF addr = nullptr \/ n = 0
    THEN heap
    ELSE [heap EXCEPT ![addr].bytes =
             [k \in 1..Len(@) |-> IF k > off /\ k <= off + n THEN 0 ELSE @[k]]]

(***************************************************************************)
(* turbo::span<uint8_t>: the address of a slab, an offset into it, a size. *)
(***************************************************************************)
Span(data, off, size) == [data |-> data, off |-> off, size |-> size]

\* turbo::span<uint8_t>{}
EmptySpan == Span(nullptr, 0, 0)

\* span::empty()
SpanEmpty(sp) == sp.size = 0

\* the bytes a span shows
SpanBytes(heap, sp) ==
    IF sp.size = 0 THEN << >>
    ELSE SubSeq(heap[sp.data].bytes, sp.off + 1, sp.off + sp.size)

(***************************************************************************)
(* VectorBatch.                                                            *)
(***************************************************************************)
\* a default-constructed VectorBatch
VectorBatch == [vector_byte_size |-> 0, capacity |-> 0, data |-> nullptr]

\* VectorBatch::init(vector_byte_size, n), with a what allocate does
VectorBatch_init(b, heap, vector_byte_size, n, a) ==
    IF a = nullptr
    THEN [b |-> b, heap |-> heap, status |-> "unavailable"]
    ELSE [b      |-> [b EXCEPT !.data = a, !.capacity = n],
          heap   |-> HeapAllocate(heap, a, vector_byte_size * n),
          status |-> "ok"]

\* VectorBatch::at(index)
VectorBatch_at(b, index) ==
    IF index >= b.capacity
    THEN EmptySpan
    ELSE Span(b.data, index * b.vector_byte_size, b.vector_byte_size)

\* VectorBatch::clear(index)
VectorBatch_clear(b, heap, index) ==
    IF index >= b.capacity
    THEN heap
    ELSE Memset0(heap, b.data, index * b.vector_byte_size, b.vector_byte_size)

\* VectorBatch::set(index, value)
VectorBatch_set(b, heap, index, value) ==
    IF index >= b.capacity
    THEN heap
    ELSE Memcpy(heap, b.data, index * b.vector_byte_size, value, b.vector_byte_size)

\* VectorBatch::~VectorBatch()
VectorBatch_dtor(b, heap) ==
    IF b.data # nullptr
    THEN HeapDeallocate(heap, b.data)
    ELSE heap

\* VectorBatch(VectorBatch &&other) = default: a member-wise copy; other keeps
\* its _data
VectorBatch_move(other) == other

(***************************************************************************)
(* MemStore. Its _id_manager is the IdManager held beside it; a store is   *)
(* the record of its other fields, with vcap the capacity of the           *)
(* std::vector _vector_batches.                                            *)
(***************************************************************************)
\* a default-constructed MemStore
MemStore ==
    [vector_byte_size |-> 0,
     option           |-> [reserved |-> 0, batch_size |-> 0, max_elements |-> 0],
     vector_batches   |-> << >>,
     vcap             |-> 0,
     has_id_manager   |-> FALSE,
     snapshot_id      |-> 0]

\* MemStore::init(vs, option): the store and the id manager afterwards
MemStore_init(st, vector_byte_size, option) ==
    [st  |-> [st EXCEPT !.vector_byte_size = vector_byte_size,
                        !.option = option,
                        !.has_id_manager = TRUE],
     idm |-> initialize(IdManager, << >>, option.reserved, option.reserved + 1)]

\* the destructors of the elements a std::vector leaves behind when it moves
\* to a larger buffer
RECURSIVE DestroyAll(_, _)
DestroyAll(batches, heap) ==
    IF batches = << >>
    THEN heap
    ELSE DestroyAll(Tail(batches), VectorBatch_dtor(Head(batches), heap))

\* _vector_batches.push_back(std::move(b)): when the buffer is full the
\* elements are moved to a buffer twice as large and the old ones destroyed
push_back(st, heap, b) ==
    IF Len(st.vector_batches) = st.vcap
    THEN [st   |-> [st EXCEPT !.vector_batches =
                                  Append([i \in 1..Len(@) |-> VectorBatch_move(@[i])],
                                         VectorBatch_move(b)),
                              !.vcap = IF @ = 0 THEN 1 ELSE 2 * @],
          heap |-> DestroyAll(st.vector_batches, heap)]
    ELSE [st   |-> [st EXCEPT !.vector_batches = Append(@, VectorBatch_move(b))],
          heap |-> heap]

\* the loop of ensure_space: one batch per element of allocs, each element
\* what allocate does in that round. valid says that every element is
\* something allocate can do on the heap of its round.
RECURSIVE EnsureLoop(_, _, _)
EnsureLoop(st, heap, allocs) ==
    IF allocs = << >>
    THEN [st |-> st, heap |-> heap, status |-> "ok", valid |-> TRUE]
    ELSE LET size == st.vector_byte_size * st.option.batch_size
             rs   == VectorBatch_init(VectorBatch, heap, st.vector_byte_size,
                                      st.option.batch_size, Head(allocs))
         IN  IF Head(allocs) \notin AllocChoices(heap, size)
             THEN [st |-> st, heap |-> heap, status |-> "ok", valid |-> FALSE]
             ELSE IF rs.status # "ok"
             THEN [st |-> st, heap |-> VectorBatch_dtor(rs.b, rs.heap),
                   status |-> rs.status, valid |-> Tail(allocs) = << >>]
             ELSE LET pb == push_back(st, rs.heap, rs.b)
                  IN  EnsureLoop(pb.st, VectorBatch_dtor(rs.b, pb.heap), Tail(allocs))

\* the number of batches ensure_space(lid) adds
EnsureDiff(st, lid) ==
    LET bi == lid \div st.option.batch_size
    IN  IF bi + 1 <= Len(st.vector_batches) THEN 0 ELSE bi + 1 - Len(st.vector_batches)

\* MemStore::ensure_space(lid)
ensure_space(st, heap, lid, allocs) ==
    IF lid >= st.option.max_elements
    THEN [st |-> st, heap |-> heap, status |-> "out_of_range", span |-> EmptySpan,
          valid |-> allocs = << >>]
    ELSE LET bi == lid \div st.option.batch_size
             si == lid % st.option.batch_size
             lp == EnsureLoop(st, heap, allocs)
         IN  IF ~lp.valid \/ (lp.status = "ok" /\ Len(allocs) # EnsureDiff(st, lid))
             THEN [st |-> st, heap |-> heap, status |-> "ok", span |-> EmptySpan,
                   valid |-> FALSE]
             ELSE IF lp.status # "ok"
             THEN [st |-> lp.st, heap |-> lp.heap, status |-> lp.status,
                   span |-> EmptySpan, valid |-> Len(allocs) <= EnsureDiff(st, lid)]
             ELSE [st |-> lp.st, heap |-> lp.heap, status |-> "ok",
                   span |-> VectorBatch_at(lp.st.vector_batches[bi + 1], si),
                   valid |-> TRUE]

\* MemStore::add_vector(snapshot_id, label, vector)
add_vector(st, m, heap, snapshot_id, label, vector, allocs) ==
    LET rs == alloc_id(m, label)
    IN  IF rs.status # "ok"
        THEN [st |-> st, idm |-> m, heap |-> heap, status |-> rs.status, value |-> 0,
              valid |-> allocs = << >>]
        ELSE LET lid == rs.value
                 ers == ensure_space(st, heap, lid, allocs)
             IN  IF ers.status # "ok"
                 THEN [st |-> ers.st, idm |-> rs.m, heap |-> ers.heap,
                       status |-> ers.status, value |-> 0, valid |-> ers.valid]
                 ELSE [st     |-> [ers.st EXCEPT !.snapshot_id = snapshot_id],
                       idm    |-> rs.m,
                       heap   |-> Memcpy(ers.heap, ers.span.data, ers.span.off,
                                         vector, Len(vector)),
                       status |-> "ok", value |-> lid, valid |-> ers.valid]

\* IdManager::local_id(label): the lid of a label, NotFound if it has none
local_id(m, label) ==
    IF label \in DOMAIN m.id_map
    THEN [status |-> "ok", value |-> m.id_map[label]]
    ELSE [status |-> "not_found", value |-> 0]

\* _vector_batches[bi].at(si): with bi outside the vector the element read is
\* no VectorBatch at all, and garbage says what at() makes of it
BatchAt(st, bi, si, garbage) ==
    IF bi + 1 <= Len(st.vector_batches)
    THEN VectorBatch_at(st.vector_batches[bi + 1], si)
    ELSE garbage

\* the spans at() can return for an element read outside the vector: the
\* empty span, or a span of memory that is no slab of the heap
GarbageSpans == {EmptySpan, Span(nullptr, 0, 1)}

\* MemStore::set_vector(snapshot_id, label, vector)
set_vector(st, m, heap, snapshot_id, label, vector, garbage) ==
    LET rs == local_id(m, label)
    IN  IF rs.status # "ok"
        THEN [st |-> st, heap |-> heap, status |-> rs.status, value |-> 0]
        ELSE LET lid == rs.value
                 bi  == lid \div st.option.batch_size
                 si  == lid % st.option.batch_size
                 sp  == BatchAt(st, bi, si, garbage)
             IN  IF SpanEmpty(sp)
                 THEN [st |-> st, heap |-> heap, status |-> "out_of_range", value |-> 0]
                 ELSE [st     |-> [st EXCEPT !.snapshot_id = snapshot_id],
                       heap   |-> Memcpy(heap, sp.data, sp.off, vector, Len(vector)),
                       status |-> "ok", value |-> lid]

\* remove_vector_by_label that takes the label for a lid
remove_vector_by_label_as_lid(st, m, snapshot_id, label) ==
    [st |-> [st EXCEPT !.snapshot_id = snapshot_id], idm |-> free_local_id(m, label)]

\* MemStore::remove_vector_by_label(snapshot_id, label)
remove_vector_by_label(st, m, snapshot_id, label) ==
    [st |-> [st EXCEPT !.snapshot_id = snapshot_id], idm |-> free_id(m, label)]

\* MemStore::remove_vector_by_id(snapshot_id, id)
remove_vector_by_id(st, m, snapshot_id, id) ==
    [st |-> [st EXCEPT !.snapshot_id = snapshot_id], idm |-> free_local_id(m, id)]

\* MemStore::tombstone_vector_by_label(snapshot_id, label)
tombstone_vector_by_label(st, m, snapshot_id, label) ==
    [st |-> [st EXCEPT !.snapshot_id = snapshot_id],
     idm |-> set_label_status(m, label, kTombstone)]

\* tombstone_vector_by_id that does not write _snapshot_id
tombstone_vector_by_id_unstamped(st, m, snapshot_id, id) ==
    [st |-> st, idm |-> set_local_id_status(m, id, kTombstone)]

\* MemStore::tombstone_vector_by_id(snapshot_id, id)
tombstone_vector_by_id(st, m, snapshot_id, id) ==
    [st |-> [st EXCEPT !.snapshot_id = snapshot_id],
     idm |-> set_local_id_status(m, id, kTombstone)]

\* MemStore::snapshot_id()
MemStore_snapshot_id(st) == st.snapshot_id

\* MemStore::get_id(label)
get_id(m, label) == local_id(m, label)

\* MemStore::get_vector_by_label(label)
get_vector_by_label(st, m, heap, label, garbage) ==
    LET rs == local_id(m, label)
    IN  IF rs.status # "ok"
        THEN [status |-> rs.status, span |-> EmptySpan]
        ELSE LET lid == rs.value
                 bi  == lid \div st.option.batch_size
                 si  == lid % st.option.batch_size
                 sp  == BatchAt(st, bi, si, garbage)
             IN  IF SpanEmpty(sp)
                 THEN [status |-> "out_of_range", span |-> EmptySpan]
                 ELSE [status |-> "ok", span |-> sp]

\* MemStore::get_vector_by_id(lid)
get_vector_by_id(st, heap, lid, garbage) ==
    LET bi == lid \div st.option.batch_size
        si == lid % st.option.batch_size
        sp == BatchAt(st, bi, si, garbage)
    IN  IF SpanEmpty(sp)
        THEN [status |-> "out_of_range", span |-> EmptySpan]
        ELSE [status |-> "ok", span |-> sp]

(***************************************************************************)
(* MetricRegistry (xann/core/operator_registry.h, operator_registry.cc).   *)
(* The three nested vectors of _metric_level_map are modelled by what is   *)
(* set in them: the metrics whose MetricLevelMap has init set, the         *)
(* (metric, data type) pairs whose DataTypeMap has init set, and the        *)
(* (metric, data type, simd level) cells whose SimdLevelMap has init set,  *)
(* each with the entity stored in it.                                      *)
(***************************************************************************)
\* xann::kUndefinedMetric, kHamming, kPoincare, kMetricTypeMax
kUndefinedMetric == 0

kHamming == 4

kPoincare == 11

kMetricTypeMax == 30

\* enum class DataType
DT_NONE == 0

DT_UINT8 == 1

DT_FLOAT16 == 2

DT_FLOAT == 3

DT_MAX == 4

\* enum class SimdLevel
SIMD_NONE == 0

SIMD_SSE2 == 1

SIMD_MAX == 4

\* VectorSpace::kAlignmentBytes
kAlignmentBytes == 64

\* the largest and the smallest int32_t
INT32_MAX == 2147483647

INT32_MIN == -INT32_MAX - 1

\* the addresses of the distance functions: the two built-in Hamming kernels
\* and one supplied by a caller
simple_distance_hamming == 1

simd_distance_hamming_sse3 == 2

caller_distance == 3

\* the metrics, data types and simd levels the calls are made with: for each
\* axis the values below and above the valid range and two or three inside
Metrics == {kUndefinedMetric, kHamming, kPoincare, kMetricTypeMax}

DataTypes == {DT_NONE, DT_UINT8, DT_FLOAT16, DT_FLOAT, DT_MAX}

SimdLevels == {SIMD_NONE, SIMD_SSE2, SIMD_MAX}

\* struct OperatorEntity, with its default member initialisers
OperatorEntity ==
    [supports |-> FALSE, need_normalize_vector |-> FALSE, simd_level |-> SIMD_NONE,
     metric |-> kUndefinedMetric, data_type |-> DT_NONE, normalize_vector |-> nullptr,
     distance_vector |-> nullptr, norm_vector |-> nullptr]

\* the MetricRegistry before the first call of instance() constructs it
MetricRegistry ==
    [constructed |-> FALSE, finish_build |-> FALSE, metric_init |-> {},
     data_type_init |-> {}, cells |-> EmptyMap]

\* a registry that never reads _finish_build
FrozenNever(r) == FALSE

\* if (_finish_build)
Frozen(r) == r.finish_build

\* MetricRegistry::register_operator(op, replace)
register_operator(r, op, replace) ==
    IF Frozen(r)
    THEN [r |-> r, status |-> "failed_precondition"]
    ELSE IF op.metric <= kUndefinedMetric \/ op.metric >= kMetricTypeMax
    THEN [r |-> r, status |-> "invalid_argument"]
    ELSE LET r1 == [r EXCEPT !.metric_init = @ \cup {op.metric}]
         IN  IF op.data_type <= DT_NONE \/ op.data_type >= DT_MAX
             THEN [r |-> r1, status |-> "invalid_argument"]
             ELSE LET r2 == [r1 EXCEPT !.data_type_init = @ \cup {<<op.metric, op.data_type>>}]
                      cell == <<op.metric, op.data_type, op.simd_level>>
                  IN  IF op.simd_level < SIMD_NONE \/ op.simd_level >= SIMD_MAX
                      THEN [r |-> r2, status |-> "invalid_argument"]
                      ELSE IF cell \in DOMAIN r2.cells /\ ~replace
                      THEN [r |-> r2, status |-> "already_exists"]
                      ELSE [r |-> [r2 EXCEPT !.cells = MapPut(@, cell, op)],
                            status |-> "ok"]

\* MetricRegistry::get_metric_operator(metric, dt, simd_level)
get_metric_operator(r, metric, dt, simd_level) ==
    IF metric <= kUndefinedMetric \/ metric >= kMetricTypeMax
    THEN [status |-> "invalid_argument", value |-> OperatorEntity]
    ELSE IF metric \notin r.metric_init
    THEN [status |-> "unavailable", value |-> OperatorEntity]
    ELSE IF dt <= DT_NONE \/ dt >= DT_MAX
    THEN [status |-> "invalid_argument", value |-> OperatorEntity]
    ELSE IF <<metric, dt>> \notin r.data_type_init
    THEN [status |-> "unavailable", value |-> OperatorEntity]
    ELSE IF simd_level < SIMD_NONE \/ simd_level >= SIMD_MAX
    THEN [status |-> "invalid_argument", value |-> OperatorEntity]
    ELSE IF <<metric, dt, simd_level>> \notin DOMAIN r.cells
    THEN [status |-> "already_exists", value |-> OperatorEntity]
    ELSE [status |-> "ok", value |-> r.cells[<<metric, dt, simd_level>>]]

\* MetricRegistry::finish_build()
finish_build(r) == [r EXCEPT !.finish_build = TRUE]

\* initialize_hamming_operator: the uint8 kernel at SIMD_NONE, and the float
\* kernel at SIMD_SSE2 when the build defines XSIMD_WITH_SSE3
initialize_hamming_operator(r, with_sse3) ==
    LET u8  == [OperatorEntity EXCEPT !.supports = TRUE, !.simd_level = SIMD_NONE,
                                      !.metric = kHamming, !.data_type = DT_UINT8,
                                      !.distance_vector = simple_distance_hamming]
        f32 == [OperatorEntity EXCEPT !.supports = TRUE, !.simd_level = SIMD_SSE2,
                                      !.metric = kHamming, !.data_type = DT_FLOAT,
                                      !.distance_vector = simd_distance_hamming_sse3]
        rs0 == register_operator(r, u8, FALSE)
    IN  IF rs0.status # "ok"
        THEN rs0
        ELSE IF with_sse3
             THEN register_operator(rs0.r, f32, FALSE)
             ELSE rs0

\* MetricRegistry::MetricRegistry(): the built-in operators of the metrics
\* modelled are registered
MetricRegistry_ctor(with_sse3) ==
    initialize_hamming_operator([MetricRegistry EXCEPT !.constructed = TRUE], with_sse3).r

(***************************************************************************)
(* VectorSpace (xann/core/vector_space.h, vector_space.cc). Its sizes are  *)
(* int32_t; the operators below compute in that width.                     *)
(***************************************************************************)
\* a + b leaves the range of int32_t
AddOverflows(a, b) ==
    \/ b > 0 /\ a > INT32_MAX - b
    \/ b < 0 /\ a < INT32_MIN - b

\* a + b modulo 2^32, as a two's complement int32_t
WrapAdd(a, b) ==
    IF b > 0 /\ a > INT32_MAX - b
    THEN (a + INT32_MIN) + (b + INT32_MIN)
    ELSE IF b < 0 /\ a < INT32_MIN - b
    THEN (a - INT32_MIN) + (b - INT32_MIN)
    ELSE a + b

\* n * a leaves the range of int32_t, for n >= 1 and a >= 0
MulOverflows(n, a) == a > INT32_MAX \div n

\* n * a modulo 2^32 for n a power of two (1, 2 or 4)
RECURSIVE WrapMul(_, _)
WrapMul(n, a) ==
    IF n = 1
    THEN a
    ELSE LET h == WrapMul(n \div 2, a) IN WrapAdd(h, h)

\* a / b of C++, which truncates towards zero, for b > 0
TruncDiv(a, b) ==
    IF a >= 0
    THEN a \div b
    ELSE IF a = INT32_MIN
    THEN -((INT32_MAX \div b) + (IF (INT32_MAX % b) = b - 1 THEN 1 ELSE 0))
    ELSE -((-a) \div b)

\* data_type_size(dt)
data_type_size(dt) ==
    CASE dt = DT_UINT8   -> [status |-> "ok", value |-> 1]
      [] dt = DT_FLOAT16 -> [status |-> "ok", value |-> 2]
      [] dt = DT_FLOAT   -> [status |-> "ok", value |-> 4]
      [] OTHER           -> [status |-> "invalid_argument", value |-> 0]

\* struct VectorSpace, with its default member initialisers
VectorSpace ==
    [dim |-> 0, metric |-> kUndefinedMetric, data_type |-> DT_NONE, alignment_dim |-> 0,
     vector_byte_size |-> 0, alignment_bytes |-> 0, element_size |-> 0,
     need_normalize_vector |-> FALSE, standard_operation |-> OperatorEntity,
     operation |-> OperatorEntity]

\* element_size * dim + alignment_bytes - 1 overflows int32_t: signed overflow,
\* which is undefined behaviour
SizeOverflows(element_size, dim) ==
    \/ MulOverflows(element_size, dim)
    \/ AddOverflows(element_size * dim, kAlignmentBytes)

\* VectorSpace::create(dim, metric, dt, level) with dim >= 0. Where the size
\* computation overflows, the build either wraps (wraps = TRUE) or traps.
VectorSpace_create(r, dim, metric, dt, level, wraps) ==
    LET vs0  == [VectorSpace EXCEPT !.dim = dim, !.metric = metric, !.data_type = dt,
                                    !.alignment_bytes = kAlignmentBytes]
        dtrs == data_type_size(dt)
    IN  IF dtrs.status # "ok"
        THEN [status |-> dtrs.status, value |-> VectorSpace]
        ELSE IF SizeOverflows(dtrs.value, dim) /\ ~wraps
        THEN [status |-> "aborted", value |-> VectorSpace]
        ELSE LET es   == dtrs.value
                 sum  == WrapAdd(WrapAdd(WrapMul(es, dim), kAlignmentBytes), -1)
                 vbs  == TruncDiv(sum, kAlignmentBytes) * kAlignmentBytes
                 vs1  == [vs0 EXCEPT !.element_size = es, !.vector_byte_size = vbs,
                                     !.alignment_dim = TruncDiv(vbs, es)]
                 msrs == get_metric_operator(r, metric, dt, SIMD_NONE)
                 mrs  == get_metric_operator(r, metric, dt, level)
             IN  IF msrs.status # "ok"
                 THEN [status |-> msrs.status, value |-> VectorSpace]
                 ELSE IF mrs.status # "ok"
                 THEN [status |-> mrs.status, value |-> VectorSpace]
                 ELSE IF ~mrs.value.supports
                 THEN [status |-> "unavailable", value |-> VectorSpace]
                 ELSE [status |-> "ok",
                       value  |-> [vs1 EXCEPT !.standard_operation = msrs.value,
                                              !.operation = mrs.value,
                                              !.need_normalize_vector =
                                                  mrs.value.need_normalize_vector]]

(***************************************************************************)


(* State.                                                                  *)
(***************************************************************************)
VARIABLES
    idm,    \* the IdManager object (a store's _id_manager)
    store,  \* the MemStore object
    heap,   \* the slabs of the aligned allocator
    vb,     \* a VectorBatch object on its own
    last,   \* the last call made: its name, arguments, status and value
    calls,  \* the number of calls made so far
    pc,     \* for each thread, the statement of add_vector it is at, and its locals
    registry \* the MetricRegistry singleton

vars == <<idm, store, heap, vb, last, calls, pc, registry>>

Call(op, args, status, value) ==
    [op |-> op, args |-> args, status |-> status, value |-> value]

\* the pools initialize adopts: every slot of [reserved_id, next_id) that
\* exists holds the sentinel or a label no other slot holds, every other slot
\* holds the sentinel, every status is kNoneStatus
Pools(reserved_id, next_id) ==
    {p \in UNION {[1..n -> [label : Labels \cup {kInvalidId}, status : {kNoneStatus}]] : n \in 0..MaxPool} :
        /\ \A i \in 1..Len(p) :
              (i - 1 < reserved_id \/ i - 1 >= next_id) => p[i].label = kInvalidId
        /\ \A i, j \in 1..Len(p) :
              (i # j /\ p[i].label # kInvalidId) => p[i].label # p[j].label}

\* the state after construction: nothing is initialised, nothing allocated
\* a thread that is in no call
Idle == [at |-> "idle", args |-> << >>, lid |-> 0, sp |-> EmptySpan]

Init ==
    /\ idm = IdManager
    /\ store = MemStore
    /\ heap = << >>
    /\ vb = VectorBatch
    /\ last = Call("none", << >>, "ok", 0)
    /\ calls = 0
    /\ pc = [t \in Threads |-> Idle]
    /\ registry = MetricRegistry

\* initialize with reserved_id <= next_id
Initialize ==
    /\ ~idm.initialized
    /\ \E reserved_id \in 0..MaxReserved :
       \E next_id \in reserved_id..(reserved_id + MaxActive) :
       \E map \in Pools(reserved_id, next_id) :
        /\ idm' = initialize(idm, map, reserved_id, next_id)
        /\ last' = Call("initialize", <<reserved_id, next_id>>, "ok", 0)
        /\ UNCHANGED <<store, heap, vb>>

AllocId ==
    \E label \in Labels :
        /\ idm.initialized
        /\ LET r == alloc_id(idm, label)
           IN  /\ idm' = r.m
               /\ last' = Call("alloc_id", <<label>>, r.status, r.value)
               /\ UNCHANGED <<store, heap, vb>>

FreeId ==
    \E label \in Labels :
        /\ idm.initialized
        /\ idm' = free_id(idm, label)
        /\ last' = Call("free_id", <<label>>, "ok", 0)
        /\ UNCHANGED <<store, heap, vb>>

\* free_local_id with a lid outside the reserved range
FreeLocalId ==
    \E lid \in Lids :
        /\ idm.initialized
        /\ lid >= idm.reserved_id
        /\ idm' = free_local_id(idm, lid)
        /\ last' = Call("free_local_id", <<lid>>, "ok", 0)
        /\ UNCHANGED <<store, heap, vb>>

SetReservedId ==
    \E lid \in Lids, label \in Labels :
        /\ lid < idm.reserved_id
        /\ idm' = set_reserved_id(idm, lid, label)
        /\ last' = Call("set_reserved_id", <<lid, label>>, "ok", 0)
        /\ UNCHANGED <<store, heap, vb>>

SetLabelStatus ==
    \E label \in Labels, status \in Statuses :
        /\ label \in DOMAIN idm.id_map => idm.initialized
        /\ idm' = set_label_status(idm, label, status)
        /\ last' = Call("set_label_status", <<label, status>>, "ok", 0)
        /\ UNCHANGED <<store, heap, vb>>

SetLocalIdStatus ==
    \E lid \in Lids, status \in Statuses :
        /\ idm.initialized
        /\ idm' = set_local_id_status(idm, lid, status)
        /\ last' = Call("set_local_id_status", <<lid, status>>, "ok", 0)
        /\ UNCHANGED <<store, heap, vb>>

\* one more call, while the behaviour may still make one; the call runs from
\* its first statement to its return with no other thread in a call
Count ==
    /\ calls < MaxCalls
    /\ calls' = calls + 1
    /\ \A t \in Threads : pc[t] = Idle
    /\ UNCHANGED <<pc, registry>>

Next ==
    \/ Count /\ Initialize
    \/ Count /\ AllocId
    \/ Count /\ FreeId
    \/ Count /\ FreeLocalId
    \/ Count /\ SetReservedId
    \/ Count /\ SetLabelStatus
    \/ Count /\ SetLocalIdStatus
Spec == Init /\ [][Next]_vars

\* the operations of the active range: every operation but set_reserved_id
NextActive ==
    \/ Count /\ Initialize
    \/ Count /\ AllocId
    \/ Count /\ FreeId
    \/ Count /\ FreeLocalId
    \/ Count /\ SetLabelStatus
    \/ Count /\ SetLocalIdStatus
SpecActive == Init /\ [][NextActive]_vars

\* free_local_id with any lid, one of the reserved range included
FreeLocalIdAny ==
    \E lid \in Lids :
        /\ idm.initialized
        /\ idm' = free_local_id(idm, lid)
        /\ last' = Call("free_local_id", <<lid>>, "ok", 0)
        /\ UNCHANGED <<store, heap, vb>>

\* the operations that move the watermarks, and the set-status calls
NextWatermark ==
    \/ Count /\ Initialize
    \/ Count /\ AllocId
    \/ Count /\ FreeId
    \/ Count /\ FreeLocalIdAny
    \/ Count /\ SetLabelStatus
    \/ Count /\ SetLocalIdStatus
SpecWatermark == Init /\ [][NextWatermark]_vars

\* initialize with any two watermarks, reserved_id > next_id included
InitializeAny ==
    /\ ~idm.initialized
    /\ \E reserved_id \in 0..MaxReserved :
       \E next_id \in 0..(reserved_id + MaxActive) :
       \E map \in Pools(reserved_id, next_id) :
        /\ idm' = initialize(idm, map, reserved_id, next_id)
        /\ last' = Call("initialize", <<reserved_id, next_id>>, "ok", 0)
        /\ UNCHANGED <<store, heap, vb>>

\* the IdManager's operations after an initialize with any arguments
NextInit ==
    \/ Count /\ InitializeAny
    \/ Count /\ AllocId
    \/ Count /\ FreeId
    \/ Count /\ FreeLocalId
    \/ Count /\ SetReservedId
    \/ Count /\ SetLabelStatus
    \/ Count /\ SetLocalIdStatus
SpecInit == Init /\ [][NextInit]_vars

(***************************************************************************)
(* The calls of a MemStore.                                                *)
(***************************************************************************)
Snapshots == 1..MaxSnapshot
Bytes == {0, 1}
Vectors(n) == [1..n -> Bytes]

\* what allocate can do in the rounds of the ensure_space that
\* add_vector(label) runs: one address, or nullptr for std::bad_alloc, per
\* round, for as many rounds as there are batches to add, or fewer
AllocSeqs(label) ==
    LET rs   == alloc_id(idm, label)
        diff == IF rs.status = "ok" /\ rs.value < store.option.max_elements
                THEN EnsureDiff(store, rs.value)
                ELSE 0
    IN  UNION {[1..n -> 0..(Len(heap) + n)] : n \in 0..diff}

StoreInit ==
    /\ ~store.has_id_manager
    /\ \E vector_byte_size \in 1..MaxVectorBytes :
       \E reserved \in 0..MaxReserved :
       \E batch_size \in 1..MaxBatchSize :
       \E max_elements \in 1..MaxElements :
        LET option == [reserved |-> reserved, batch_size |-> batch_size,
                       max_elements |-> max_elements]
            r == MemStore_init(store, vector_byte_size, option)
        IN  /\ store' = r.st
            /\ idm' = r.idm
            /\ last' = Call("init", <<vector_byte_size, option>>, "ok", 0)
            /\ UNCHANGED <<heap, vb>>

\* add_vector with a vector of vector_byte_size bytes
AddVector ==
    /\ store.has_id_manager
    /\ \E snapshot_id \in Snapshots, label \in Labels :
       \E vector \in Vectors(store.vector_byte_size) :
       \E allocs \in AllocSeqs(label) :
        LET r == add_vector(store, idm, heap, snapshot_id, label, vector, allocs)
        IN  /\ r.valid
            /\ store' = r.st
            /\ idm' = r.idm
            /\ heap' = r.heap
            /\ last' = Call("add_vector", <<snapshot_id, label, vector>>, r.status, r.value)
            /\ UNCHANGED vb

\* set_vector with a vector of vector_byte_size bytes
SetVector ==
    /\ store.has_id_manager
    /\ \E snapshot_id \in Snapshots, label \in Labels :
       \E vector \in Vectors(store.vector_byte_size) :
       \E garbage \in GarbageSpans :
        LET r == set_vector(store, idm, heap, snapshot_id, label, vector, garbage)
        IN  /\ store' = r.st
            /\ heap' = r.heap
            /\ last' = Call("set_vector", <<snapshot_id, label, vector>>, r.status, r.value)
            /\ UNCHANGED <<idm, vb>>

RemoveVectorByLabel ==
    /\ store.has_id_manager
    /\ \E snapshot_id \in Snapshots, label \in Labels :
        LET r == remove_vector_by_label(store, idm, snapshot_id, label)
        IN  /\ store' = r.st
            /\ idm' = r.idm
            /\ last' = Call("remove_vector_by_label", <<snapshot_id, label>>, "ok", 0)
            /\ UNCHANGED <<heap, vb>>

\* remove_vector_by_id with a lid outside the reserved range
RemoveVectorById ==
    /\ store.has_id_manager
    /\ \E snapshot_id \in Snapshots, id \in Lids :
        LET r == remove_vector_by_id(store, idm, snapshot_id, id)
        IN  /\ id >= idm.reserved_id
            /\ store' = r.st
            /\ idm' = r.idm
            /\ last' = Call("remove_vector_by_id", <<snapshot_id, id>>, "ok", 0)
            /\ UNCHANGED <<heap, vb>>

\* the labels of the slots of [reserved_id, min(capacity, next_id)) whose
\* status is kTombstone, in the order of their lids
RECURSIVE TombstoneLabelsFrom(_, _, _)
TombstoneLabelsFrom(m, i, end) ==
    IF i >= end
    THEN << >>
    ELSE IF m.ids[i + 1].status = kTombstone
         THEN <<m.ids[i + 1].label>> \o TombstoneLabelsFrom(m, i + 1, end)
         ELSE TombstoneLabelsFrom(m, i + 1, end)

tombstone_labels(m) ==
    LET end == IF Len(m.ids) < m.next_id THEN Len(m.ids) ELSE m.next_id
    IN  TombstoneLabelsFrom(m, m.reserved_id, end)

\* the lids of [reserved_id, min(capacity, next_id)) whose slot has the
\* status kTombstone, in increasing order
RECURSIVE TombstoneLocalIdsFrom(_, _, _)
TombstoneLocalIdsFrom(m, i, end) ==
    IF i >= end
    THEN << >>
    ELSE IF m.ids[i + 1].status = kTombstone
         THEN <<i>> \o TombstoneLocalIdsFrom(m, i + 1, end)
         ELSE TombstoneLocalIdsFrom(m, i + 1, end)

\* MemStore::tombstone_local_ids()
tombstone_local_ids(m) ==
    LET end == IF Len(m.ids) < m.next_id THEN Len(m.ids) ELSE m.next_id
    IN  TombstoneLocalIdsFrom(m, m.reserved_id, end)

\* MemStore::tombstones(): the same scan, counting
tombstones(m) ==
    LET end == IF Len(m.ids) < m.next_id THEN Len(m.ids) ELSE m.next_id
    IN  Cardinality({i \in m.reserved_id..(end - 1) : m.ids[i + 1].status = kTombstone})

TombstoneVectorByLabel ==
    /\ store.has_id_manager
    /\ \E snapshot_id \in Snapshots, label \in Labels :
        LET r == tombstone_vector_by_label(store, idm, snapshot_id, label)
        IN  /\ store' = r.st
            /\ idm' = r.idm
            /\ last' = Call("tombstone_vector_by_label", <<snapshot_id, label>>, "ok", 0)
            /\ UNCHANGED <<heap, vb>>

TombstoneVectorById ==
    /\ store.has_id_manager
    /\ \E snapshot_id \in Snapshots, id \in Lids :
        LET r == tombstone_vector_by_id(store, idm, snapshot_id, id)
        IN  /\ store' = r.st
            /\ idm' = r.idm
            /\ last' = Call("tombstone_vector_by_id", <<snapshot_id, id>>, "ok", 0)
            /\ UNCHANGED <<heap, vb>>

NextStore ==
    \/ Count /\ StoreInit
    \/ Count /\ AddVector
    \/ Count /\ SetVector
    \/ Count /\ RemoveVectorByLabel
    \/ Count /\ RemoveVectorById
    \/ Count /\ TombstoneVectorByLabel
    \/ Count /\ TombstoneVectorById
SpecStore == Init /\ [][NextStore]_vars

(***************************************************************************)
(* The label-keyed calls of a MemStore: after init, only add_vector,       *)
(* set_vector, remove_vector_by_label and tombstone_vector_by_label.       *)
(***************************************************************************)
NextLabelKeyed ==
    \/ Count /\ StoreInit
    \/ Count /\ AddVector
    \/ Count /\ SetVector
    \/ Count /\ RemoveVectorByLabel
    \/ Count /\ TombstoneVectorByLabel
SpecLabelKeyed == Init /\ [][NextLabelKeyed]_vars

(***************************************************************************)
(* Adding and draining: after init, only add_vector and                    *)
(* remove_vector_by_label.                                                 *)
(***************************************************************************)
NextDrain ==
    \/ Count /\ StoreInit
    \/ Count /\ AddVector
    \/ Count /\ RemoveVectorByLabel
SpecDrain == Init /\ [][NextDrain]_vars

(***************************************************************************)
(* A store that is filled: init with max_elements above the capacity the   *)
(* pool gets at initialization, then add_vector of one fresh label after   *)
(* another (the labels 0, 1, 2, ... in this order, each with the vector of *)
(* zero bytes).                                                            *)
(***************************************************************************)
CountFill ==
    /\ calls < MaxFillCalls
    /\ calls' = calls + 1
    /\ \A t \in Threads : pc[t] = Idle
    /\ UNCHANGED <<pc, registry>>

FillInit ==
    /\ ~store.has_id_manager
    /\ \E reserved \in 0..MaxReserved :
        LET option == [reserved |-> reserved, batch_size |-> FillBatchSize,
                       max_elements |-> FillElements]
            r == MemStore_init(store, MaxVectorBytes, option)
        IN  /\ store' = r.st
            /\ idm' = r.idm
            /\ last' = Call("init", <<MaxVectorBytes, option>>, "ok", 0)
            /\ UNCHANGED <<heap, vb>>

\* add_vector of the smallest label that was never added
FillAddVector ==
    /\ store.has_id_manager
    /\ LET label  == Cardinality(DOMAIN idm.id_map)
           vector == [k \in 1..store.vector_byte_size |-> 0]
       IN  \E allocs \in AllocSeqs(label) :
            LET r == add_vector(store, idm, heap, 1, label, vector, allocs)
            IN  /\ r.valid
                /\ store' = r.st
                /\ idm' = r.idm
                /\ heap' = r.heap
                /\ last' = Call("add_vector", <<1, label, vector>>, r.status, r.value)
                /\ UNCHANGED vb

NextCapacity ==
    \/ CountFill /\ FillInit
    \/ CountFill /\ FillAddVector
SpecCapacity == Init /\ [][NextCapacity]_vars

(***************************************************************************)
(* The calls of a VectorBatch on its own.                                  *)
(***************************************************************************)
VbInit ==
    \E vector_byte_size \in 1..MaxVectorBytes, n \in 1..MaxBatchSize :
    \E a \in AllocChoices(heap, vector_byte_size * n) :
        LET r == VectorBatch_init(vb, heap, vector_byte_size, n, a)
        IN  /\ vb' = r.b
            /\ heap' = r.heap
            /\ last' = Call("VectorBatch_init", <<vector_byte_size, n>>, r.status, 0)
            /\ UNCHANGED <<idm, store>>

VbAt ==
    \E index \in 0..MaxBatchSize :
        /\ last' = Call("VectorBatch_at", <<index>>, "ok", VectorBatch_at(vb, index))
        /\ UNCHANGED <<idm, store, heap, vb>>

VbSet ==
    \E index \in 0..MaxBatchSize :
    \E value \in UNION {Vectors(n) : n \in 1..MaxVectorBytes} :
        /\ heap' = VectorBatch_set(vb, heap, index, value)
        /\ last' = Call("VectorBatch_set", <<index, value>>, "ok", 0)
        /\ UNCHANGED <<idm, store, vb>>

VbClear ==
    \E index \in 0..MaxBatchSize :
        /\ heap' = VectorBatch_clear(vb, heap, index)
        /\ last' = Call("VectorBatch_clear", <<index>>, "ok", 0)
        /\ UNCHANGED <<idm, store, vb>>

NextBatch ==
    \/ Count /\ VbInit
    \/ Count /\ VbAt
    \/ Count /\ VbSet
    \/ Count /\ VbClear
SpecBatch == Init /\ [][NextBatch]_vars

(***************************************************************************)
(* add_vector called by several threads on one store. No statement of      *)
(* add_vector, alloc_id or ensure_space acquires _mutex, so a thread takes  *)
(* each step whenever it is scheduled; a step is one statement of           *)
(* add_vector.                                                             *)
(***************************************************************************)
\* what allocate can do in the rounds of ensure_space(lid)
AllocSeqsOf(lid) ==
    LET diff == IF lid < store.option.max_elements THEN EnsureDiff(store, lid) ELSE 0
    IN  UNION {[1..n -> 0..(Len(heap) + n)] : n \in 0..diff}

\* thread t returns from add_vector
Return(t, status, value) ==
    /\ pc' = [pc EXCEPT ![t] = Idle]
    /\ last' = Call("add_vector", pc[t].args, status, value)

\* thread t enters add_vector(snapshot_id, label, vector)
AddVectorCall(t) ==
    /\ store.has_id_manager
    /\ pc[t].at = "idle"
    /\ calls < MaxCalls
    /\ calls' = calls + 1
    /\ \E snapshot_id \in Snapshots, label \in Labels :
       \E vector \in Vectors(store.vector_byte_size) :
        pc' = [pc EXCEPT ![t] = [Idle EXCEPT !.at = "alloc_id",
                                             !.args = <<snapshot_id, label, vector>>]]
    /\ UNCHANGED <<idm, store, heap, vb, registry, last>>

\* auto rs = _id_manager->alloc_id(label); if (!rs.ok()) return rs.status();
AddVectorAllocId(t) ==
    /\ pc[t].at = "alloc_id"
    /\ LET rs == alloc_id(idm, pc[t].args[2])
       IN  /\ idm' = rs.m
           /\ IF rs.status # "ok"
              THEN Return(t, rs.status, 0)
              ELSE /\ pc' = [pc EXCEPT ![t].at = "ensure_space", ![t].lid = rs.value]
                   /\ UNCHANGED last
    /\ UNCHANGED <<store, heap, vb, registry, calls>>

\* auto ers = ensure_space(lid); if (!ers.ok()) return ers.status();
AddVectorEnsureSpace(t) ==
    /\ pc[t].at = "ensure_space"
    /\ \E allocs \in AllocSeqsOf(pc[t].lid) :
        LET ers == ensure_space(store, heap, pc[t].lid, allocs)
        IN  /\ ers.valid
            /\ store' = ers.st
            /\ heap' = ers.heap
            /\ IF ers.status # "ok"
               THEN Return(t, ers.status, 0)
               ELSE /\ pc' = [pc EXCEPT ![t].at = "memcpy", ![t].sp = ers.span]
                    /\ UNCHANGED last
    /\ UNCHANGED <<idm, vb, registry, calls>>

\* memcpy of add_vector, were it followed at once by the write of _snapshot_id
AddVectorMemcpyStamped(t) ==
    /\ pc[t].at = "memcpy"
    /\ heap' = Memcpy(heap, pc[t].sp.data, pc[t].sp.off, pc[t].args[3], Len(pc[t].args[3]))
    /\ store' = [store EXCEPT !.snapshot_id = pc[t].args[1]]
    /\ pc' = [pc EXCEPT ![t].at = "stamp"]
    /\ UNCHANGED <<idm, vb, registry, last, calls>>

\* memcpy(sp.data(), vector.data(), vector.size());
AddVectorMemcpy(t) ==
    /\ pc[t].at = "memcpy"
    /\ heap' = Memcpy(heap, pc[t].sp.data, pc[t].sp.off, pc[t].args[3], Len(pc[t].args[3]))
    /\ pc' = [pc EXCEPT ![t].at = "stamp"]
    /\ UNCHANGED <<idm, store, vb, registry, last, calls>>

\* _snapshot_id = snapshot_id; return lid;
AddVectorStamp(t) ==
    /\ pc[t].at = "stamp"
    /\ store' = [store EXCEPT !.snapshot_id = pc[t].args[1]]
    /\ Return(t, "ok", pc[t].lid)
    /\ UNCHANGED <<idm, heap, vb, registry, calls>>

NextThreads ==
    \/ Count /\ StoreInit
    \/ \E t \in Threads : AddVectorCall(t)
    \/ \E t \in Threads : AddVectorAllocId(t)
    \/ \E t \in Threads : AddVectorEnsureSpace(t)
    \/ \E t \in Threads : AddVectorMemcpy(t)
    \/ \E t \in Threads : AddVectorStamp(t)

SpecThreads == Init /\ [][NextThreads]_vars

(***************************************************************************)
(* The mutators of the MemStore, statement by statement, called by one     *)
(* writer: the caller holds MemStore::mutex around each call.              *)
(***************************************************************************)
Writer == 1

\* thread t returns from the mutator op
ReturnFrom(t, op, status, value) ==
    /\ pc' = [pc EXCEPT ![t] = Idle]
    /\ last' = Call(op, pc[t].args, status, value)

\* thread t is in no call and may make one more
Enter(t) ==
    /\ store.has_id_manager
    /\ pc[t] = Idle
    /\ calls < MaxCalls
    /\ calls' = calls + 1

\* set_vector: auto rs = _id_manager->local_id(label); if (!rs.ok()) return rs.status();
SetVectorLocalId(t) ==
    /\ Enter(t)
    /\ \E snapshot_id \in Snapshots, label \in Labels :
       \E vector \in Vectors(store.vector_byte_size) :
        LET rs   == local_id(idm, label)
            args == <<snapshot_id, label, vector>>
        IN  IF rs.status # "ok"
            THEN /\ pc' = pc
                 /\ last' = Call("set_vector", args, rs.status, 0)
            ELSE /\ pc' = [pc EXCEPT ![t] = [Idle EXCEPT !.at = "sv_at", !.args = args,
                                                         !.lid = rs.value]]
                 /\ UNCHANGED last
    /\ UNCHANGED <<idm, store, heap, vb, registry>>

\* auto sp = _vector_batches[bi].at(si); if (sp.empty()) return out_of_range_error
SetVectorAt(t) ==
    /\ pc[t].at = "sv_at"
    /\ \E garbage \in GarbageSpans :
        LET bi == pc[t].lid \div store.option.batch_size
            si == pc[t].lid % store.option.batch_size
            sp == BatchAt(store, bi, si, garbage)
        IN  IF SpanEmpty(sp)
            THEN ReturnFrom(t, "set_vector", "out_of_range", 0)
            ELSE /\ pc' = [pc EXCEPT ![t].at = "sv_memcpy", ![t].sp = sp]
                 /\ UNCHANGED last
    /\ UNCHANGED <<idm, store, heap, vb, registry, calls>>

\* memcpy(sp.data(), vector.data(), vector.size());
SetVectorMemcpy(t) ==
    /\ pc[t].at = "sv_memcpy"
    /\ heap' = Memcpy(heap, pc[t].sp.data, pc[t].sp.off, pc[t].args[3], Len(pc[t].args[3]))
    /\ pc' = [pc EXCEPT ![t].at = "sv_stamp"]
    /\ UNCHANGED <<idm, store, vb, registry, last, calls>>

\* _snapshot_id = snapshot_id; return lid;
SetVectorStamp(t) ==
    /\ pc[t].at = "sv_stamp"
    /\ store' = [store EXCEPT !.snapshot_id = pc[t].args[1]]
    /\ ReturnFrom(t, "set_vector", "ok", pc[t].lid)
    /\ UNCHANGED <<idm, heap, vb, registry, calls>>

\* remove_vector_by_label: _id_manager->free_id(label);
RemoveVectorByLabelFreeId(t) ==
    /\ Enter(t)
    /\ \E snapshot_id \in Snapshots, label \in Labels :
        /\ idm' = free_id(idm, label)
        /\ pc' = [pc EXCEPT ![t] = [Idle EXCEPT !.at = "rl_stamp",
                                                !.args = <<snapshot_id, label>>]]
    /\ UNCHANGED <<store, heap, vb, registry, last>>

\* remove_vector_by_id with a lid outside the reserved range:
\* _id_manager->free_local_id(id);
RemoveVectorByIdFreeLocalId(t) ==
    /\ Enter(t)
    /\ \E snapshot_id \in Snapshots, id \in Lids :
        /\ id >= idm.reserved_id
        /\ idm' = free_local_id(idm, id)
        /\ pc' = [pc EXCEPT ![t] = [Idle EXCEPT !.at = "ri_stamp",
                                                !.args = <<snapshot_id, id>>]]
    /\ UNCHANGED <<store, heap, vb, registry, last>>

\* tombstone_vector_by_label: _id_manager->set_label_status(label, kTombstone);
TombstoneVectorByLabelSetStatus(t) ==
    /\ Enter(t)
    /\ \E snapshot_id \in Snapshots, label \in Labels :
        /\ idm' = set_label_status(idm, label, kTombstone)
        /\ pc' = [pc EXCEPT ![t] = [Idle EXCEPT !.at = "tl_stamp",
                                                !.args = <<snapshot_id, label>>]]
    /\ UNCHANGED <<store, heap, vb, registry, last>>

\* tombstone_vector_by_id: _id_manager->set_local_id_status(id, kTombstone);
TombstoneVectorByIdSetStatus(t) ==
    /\ Enter(t)
    /\ \E snapshot_id \in Snapshots, id \in Lids :
        /\ idm' = set_local_id_status(idm, id, kTombstone)
        /\ pc' = [pc EXCEPT ![t] = [Idle EXCEPT !.at = "ti_stamp",
                                                !.args = <<snapshot_id, id>>]]
    /\ UNCHANGED <<store, heap, vb, registry, last>>

\* the mutator whose last statement thread t is at
StampOf(t) ==
    CASE pc[t].at = "rl_stamp" -> "remove_vector_by_label"
      [] pc[t].at = "ri_stamp" -> "remove_vector_by_id"
      [] pc[t].at = "tl_stamp" -> "tombstone_vector_by_label"
      [] pc[t].at = "ti_stamp" -> "tombstone_vector_by_id"

\* _snapshot_id = snapshot_id; of the four void mutators
VoidMutatorStamp(t) ==
    /\ pc[t].at \in {"rl_stamp", "ri_stamp", "tl_stamp", "ti_stamp"}
    /\ store' = [store EXCEPT !.snapshot_id = pc[t].args[1]]
    /\ ReturnFrom(t, StampOf(t), "ok", 0)
    /\ UNCHANGED <<idm, heap, vb, registry, calls>>

NextMutators ==
    \/ Count /\ StoreInit
    \/ AddVectorCall(Writer)
    \/ AddVectorAllocId(Writer)
    \/ AddVectorEnsureSpace(Writer)
    \/ AddVectorMemcpy(Writer)
    \/ AddVectorStamp(Writer)
    \/ SetVectorLocalId(Writer)
    \/ SetVectorAt(Writer)
    \/ SetVectorMemcpy(Writer)
    \/ SetVectorStamp(Writer)
    \/ RemoveVectorByLabelFreeId(Writer)
    \/ RemoveVectorByIdFreeLocalId(Writer)
    \/ TombstoneVectorByLabelSetStatus(Writer)
    \/ TombstoneVectorByIdSetStatus(Writer)
    \/ VoidMutatorStamp(Writer)

SpecMutators == Init /\ [][NextMutators]_vars

(***************************************************************************)
(* The calls of the MetricRegistry and of the VectorSpace factory.         *)
(***************************************************************************)
\* the dimensions create is called with: small ones on both sides of a
\* multiple of the alignment, and ones whose byte size does not fit int32_t
Dims == {0, 1, 16, 17, 64, 65, 536870912, INT32_MAX}

\* one more call on the registry, while the behaviour may still make one
CountRegistry ==
    /\ calls < MaxRegistryCalls
    /\ calls' = calls + 1
    /\ UNCHANGED <<idm, store, heap, vb, pc>>

\* the first call of MetricRegistry::instance() constructs the singleton; the
\* build defines XSIMD_WITH_SSE3 or it does not
Instance ==
    /\ ~registry.constructed
    /\ \E with_sse3 \in BOOLEAN :
        /\ registry' = MetricRegistry_ctor(with_sse3)
        /\ last' = Call("instance", <<with_sse3>>, "ok", 0)

\* register_operator with an entity of a caller
RegisterOperator ==
    /\ registry.constructed
    /\ \E metric \in Metrics, dt \in DataTypes, simd_level \in SimdLevels :
       \E supports \in BOOLEAN, replace \in BOOLEAN :
        LET op == [OperatorEntity EXCEPT !.supports = supports, !.simd_level = simd_level,
                                         !.metric = metric, !.data_type = dt,
                                         !.distance_vector = caller_distance]
            rs == register_operator(registry, op, replace)
        IN  /\ registry' = rs.r
            /\ last' = Call("register_operator", <<op, replace>>, rs.status, 0)

FinishBuild ==
    /\ registry.constructed
    /\ registry' = finish_build(registry)
    /\ last' = Call("finish_build", << >>, "ok", 0)

GetMetricOperator ==
    /\ registry.constructed
    /\ \E metric \in Metrics, dt \in DataTypes, simd_level \in SimdLevels :
        LET rs == get_metric_operator(registry, metric, dt, simd_level)
        IN  last' = Call("get_metric_operator", <<metric, dt, simd_level>>, rs.status, rs.value)
    /\ UNCHANGED registry

\* VectorSpace::create; wraps is what the build does where the size overflows
Create ==
    /\ registry.constructed
    /\ \E dim \in Dims, metric \in Metrics, dt \in DataTypes, level \in SimdLevels :
       \E wraps \in BOOLEAN :
        LET rs == VectorSpace_create(registry, dim, metric, dt, level, wraps)
        IN  last' = Call("create", <<dim, metric, dt, level>>, rs.status, rs.value)
    /\ UNCHANGED registry

NextRegistry ==
    \/ CountRegistry /\ Instance
    \/ CountRegistry /\ RegisterOperator
    \/ CountRegistry /\ FinishBuild
    \/ CountRegistry /\ GetMetricOperator
    \/ CountRegistry /\ Create

SpecRegistry == Init /\ [][NextRegistry]_vars

(***************************************************************************)
(* simple_cosine_distance<T>. A vector is the sequence of its elements of  *)
(* type T; with elements that are small integers every float the kernel    *)
(* computes is an integer and exact, up to the final division by the       *)
(* square root, which is kept as the pair of its numerator and radicand.   *)
(***************************************************************************)
\* the locals before the first loop: sum, norm_a, norm_b, and pa as the
\* number of elements it has advanced
CosineZero == [sum |-> 0, norm_a |-> 0, norm_b |-> 0, pa |-> 0]

\* the first loop, four elements per round, while pa < lastgroup = last - 3
\* (pa counts elements from the start of a; acc holds the accumulators)
RECURSIVE CosineGroups(_, _, _, _)
CosineGroups(a, b, pa, acc) ==
    IF pa < Len(a) - 3
    THEN LET pa0 == a[pa + 1]
             pa1 == a[pa + 2]
             pa2 == a[pa + 3]
             pa3 == a[pa + 4]
             pb0 == b[pa + 1]
             pb1 == b[pa + 2]
             pb2 == b[pa + 3]
             pb3 == b[pa + 4]
         IN  CosineGroups(a, b, pa + 4,
                 [sum    |-> acc.sum + pa0 * pb0 + pa1 * pb1 + pa2 * pb2 + pb3 * pb3,
                  norm_a |-> acc.norm_a + pa0 * pa0 + pa1 * pa1 + pa2 * pa2 + pa3 * pa3,
                  norm_b |-> acc.norm_b + pb0 * pb0 + pb1 * pb1 + pb2 * pb2 + pb3 * pb3,
                  pa     |-> pa + 4])
    ELSE [acc EXCEPT !.pa = pa]

\* the second loop, one element per round, while pa < last
RECURSIVE CosineTail(_, _, _, _)
CosineTail(a, b, pa, acc) ==
    IF pa < Len(a)
    THEN LET pa0 == a[pa + 1]
             pb0 == b[pa + 1]
         IN  CosineTail(a, b, pa + 1,
                 [acc EXCEPT !.sum = @ + pa0 * pb0,
                             !.norm_a = @ + pa0 * pa0,
                             !.norm_b = @ + pb0 * pb0])
    ELSE acc

\* simple_cosine_distance(a, b): the accumulators after both loops and the
\* value returned, num / sqrt(rad) (0.0 is 0 / sqrt(1))
simple_cosine_distance(a, b) ==
    LET g   == CosineGroups(a, b, 0, CosineZero)
        acc == CosineTail(a, b, g.pa, g)
    IN  [sum    |-> acc.sum,
         norm_a |-> acc.norm_a,
         norm_b |-> acc.norm_b,
         value  |-> IF acc.norm_a = 0 \/ acc.norm_b = 0
                    THEN [num |-> 0, rad |-> 1]
                    ELSE [num |-> acc.sum, rad |-> acc.norm_a * acc.norm_b]]

\* the elements and the vectors the kernel is called with
CosineElems == (0 - MaxCosineElem)..MaxCosineElem
CosineVectors(n) == [1..n -> CosineElems]

\* the inputs: two vectors of the same length
InitCosine ==
    /\ idm = IdManager
    /\ store = MemStore
    /\ heap = << >>
    /\ vb = VectorBatch
    /\ calls = 0
    /\ pc = [t \in Threads |-> Idle]
    /\ registry = MetricRegistry
    /\ \E n \in 0..MaxCosineDim :
       \E a \in CosineVectors(n), b \in CosineVectors(n) :
          last = Call("input", <<a, b>>, "ok", 0)

SimpleCosineDistance ==
    /\ last.op = "input"
    /\ calls' = calls + 1
    /\ last' = Call("simple_cosine_distance", last.args, "ok",
                    simple_cosine_distance(last.args[1], last.args[2]))
    /\ UNCHANGED <<idm, store, heap, vb, pc, registry>>

NextCosine == SimpleCosineDistance
SpecCosine == InitCosine /\ [][NextCosine]_vars

(***************************************************************************)
(* Claims about the IdManager.                                             *)
(***************************************************************************)
\* the label-map entries that point into the reserved range
ReservedEntries(m) ==
    {<<l, m.id_map[l]>> : l \in {k \in DOMAIN m.id_map : m.id_map[k] < m.reserved_id}}

\* C1: bijection on the active range. Every slot of [reserved_id, next_id)
\* that holds a label is the slot the label map gives for that label, and
\* every label-map entry with lid >= reserved_id points at the slot that
\* holds its label.
C1_BijectionOnActiveRange ==
    /\ \A lid \in idm.reserved_id..(idm.next_id - 1) :
          idm.ids[lid + 1].label # kInvalidId =>
              /\ idm.ids[lid + 1].label \in DOMAIN idm.id_map
              /\ idm.id_map[idm.ids[lid + 1].label] = lid
    /\ \A label \in DOMAIN idm.id_map :
          idm.id_map[label] >= idm.reserved_id =>
              /\ idm.id_map[label] < Len(idm.ids)
              /\ idm.ids[idm.id_map[label] + 1].label = label

\* C2: free-set domain. Every lid of free_ids lies in [reserved_id, next_id)
\* and its slot holds the sentinel.
C2_FreeSetDomain ==
    \A lid \in idm.free_ids :
        /\ idm.reserved_id <= lid
        /\ lid < idm.next_id
        /\ idm.ids[lid + 1].label = kInvalidId

\* C7: smallest-first reuse. A call of alloc_id with a label that is not
\* mapped, made while free_ids is not empty, succeeds and returns the least
\* element of free_ids, removes exactly that element from free_ids and
\* leaves next_id as it was.
C7_SmallestFirstReuse ==
    [][(/\ last'.op = "alloc_id"
        /\ calls' = calls + 1
        /\ idm.free_ids # {}
        /\ last'.args[1] \notin DOMAIN idm.id_map)
       => (/\ last'.status = "ok"
           /\ last'.value \in idm.free_ids
           /\ \A y \in idm.free_ids : last'.value <= y
           /\ idm'.free_ids = idm.free_ids \ {last'.value}
           /\ idm'.next_id = idm.next_id)]_vars

\* C7's case: alloc_id has just taken a lid from a free set that held a
\* larger lid as well (the larger one is still free).
C7_Witness ==
    /\ last.op = "alloc_id"
    /\ last.status = "ok"
    /\ idm.free_ids # {}
    /\ \A y \in idm.free_ids : last.value < y
    /\ last.value < idm.next_id

\* C8: reserved lids are never handed out. free_ids holds no lid below
\* reserved_id and alloc_id returns no lid below reserved_id.
C8_ReservedNeverHandedOut ==
    /\ \A lid \in idm.free_ids : lid >= idm.reserved_id
    /\ (last.op = "alloc_id" /\ last.status = "ok") => last.value >= idm.reserved_id

\* C9: reserved immutability. A call other than set_reserved_id leaves the
\* label-map entries whose lid is below reserved_id as they were.
C9_ReservedImmutability ==
    [][(calls' = calls + 1 /\ last'.op # "set_reserved_id")
       => ReservedEntries(idm') = ReservedEntries(idm)]_vars

\* C10: after set_reserved_id(lid, label) the label map maps label to lid,
\* and the call adds no entry keyed by the number lid.
C10_SetReservedIdMapsLabelToLid ==
    [][(calls' = calls + 1 /\ last'.op = "set_reserved_id")
       => LET lid   == last'.args[1]
              label == last'.args[2]
          IN  /\ label \in DOMAIN idm'.id_map
              /\ idm'.id_map[label] = lid
              /\ (lid # label /\ lid \notin DOMAIN idm.id_map)
                    => lid \notin DOMAIN idm'.id_map]_vars

(***************************************************************************)
(* Claims about the MemStore and the VectorBatch.                          *)
(***************************************************************************)
\* C3: trailing compactness. After every mutation of the identifier manager
\* of a store, its initialize by MemStore::init included, either
\* next_id = reserved_id or next_id - 1 is not in free_ids.
C3_TrailingCompactness ==
    store.has_id_manager =>
        \/ idm.next_id = idm.reserved_id
        \/ (idm.next_id - 1) \notin idm.free_ids

\* C4: vector round trip, in the first state it speaks of. When
\* add_vector(s, l, v) has returned ok, get_vector_by_label(l) returns ok
\* with a span of vector_byte_size bytes that shows the bytes of v.
C4_VectorRoundTrip ==
    [][(calls' = calls + 1 /\ last'.op = "add_vector" /\ last'.status = "ok")
       => \A garbage \in GarbageSpans :
            LET r == get_vector_by_label(store', idm', heap', last'.args[2], garbage)
            IN  /\ r.status = "ok"
                /\ r.span.size = store'.vector_byte_size
                /\ SpanBytes(heap', r.span) = last'.args[3]]_vars

\* C5: batches are never released while the store is live. The slab of
\* every batch in the store's batch sequence is allocated and was never
\* deallocated, and no slab is deallocated more than once.
C5_BatchesNeverReleased ==
    /\ \A i \in 1..Len(store.vector_batches) :
          LET b == store.vector_batches[i]
          IN  b.data # nullptr => (heap[b.data].live /\ heap[b.data].frees = 0)
    /\ \A a \in 1..Len(heap) : heap[a].frees <= 1

\* C6: for a batch initialised by init(vector_byte_size, n) with
\* vector_byte_size > 0 (so its slab has vector_byte_size * n bytes), at(i)
\* is the empty span exactly when i >= n, and for i < n it is the window of
\* vector_byte_size bytes at offset i * vector_byte_size of the slab.
C6_AtWindow ==
    (last.op = "VectorBatch_at" /\ vb.data # nullptr) =>
        LET i == last.args[1]
            n == vb.capacity
            vector_byte_size == heap[vb.data].size \div n
        IN  /\ SpanEmpty(last.value) <=> i >= n
            /\ i < n => last.value = Span(vb.data, i * vector_byte_size, vector_byte_size)

(***************************************************************************)
(* Further claims about the IdManager.                                     *)
(***************************************************************************)
\* C11: status cleanup on free. After free_id(label) of a mapped label whose
\* lid is a slot of the pool, and after free_local_id(lid) with lid below
\* the capacity, the freed slot holds the sentinel label and status 0,
\* whatever it held before.
C11_StatusCleanupOnFree ==
    [][/\ (/\ calls' = calls + 1
           /\ last'.op = "free_id"
           /\ last'.args[1] \in DOMAIN idm.id_map
           /\ idm.id_map[last'.args[1]] < Capacity(idm))
          => idm'.ids[idm.id_map[last'.args[1]] + 1] = LabelEntity
       /\ (/\ calls' = calls + 1
           /\ last'.op = "free_local_id"
           /\ last'.args[1] < Capacity(idm))
          => idm'.ids[last'.args[1] + 1] = LabelEntity]_vars

\* C11's case: free_local_id has just freed a slot of the pool, and the slot
\* holds the sentinel and status 0.
C11_Witness ==
    /\ last.op = "free_local_id"
    /\ last.args[1] < Capacity(idm)
    /\ last.args[1] \in idm.free_ids
    /\ idm.ids[last.args[1] + 1] = LabelEntity

\* C13: a call of alloc_id with a label that is not mapped, made while
\* free_ids is empty, returns the old next_id and adds one to next_id if
\* next_id is below the capacity; otherwise it fails with ResourceExhausted
\* and leaves the label map, the pool, the free set and next_id as they were.
C13_FreshLidOrExhausted ==
    [][(/\ calls' = calls + 1
        /\ last'.op = "alloc_id"
        /\ last'.args[1] \notin DOMAIN idm.id_map
        /\ idm.free_ids = {})
       => IF idm.next_id < Capacity(idm)
          THEN /\ last'.status = "ok"
               /\ last'.value = idm.next_id
               /\ idm'.next_id = idm.next_id + 1
          ELSE /\ last'.status = "resource_exhausted"
               /\ idm' = idm]_vars

\* C13's case: alloc_id has just failed with ResourceExhausted on a pool
\* whose next_id is its capacity.
C13_Witness ==
    /\ last.op = "alloc_id"
    /\ last.status = "resource_exhausted"
    /\ idm.free_ids = {}
    /\ idm.next_id = Capacity(idm)

\* C14: initialize(pool, reserved_id, next_id) fails with InvalidArgument if
\* and only if reserved_id > next_id, and a failed call leaves the manager
\* as it was: not initialised, no watermark and no map changed.
C14_InitializeInvalidArgument ==
    [][(calls' = calls + 1 /\ last'.op = "initialize")
       => /\ last'.status = "invalid_argument" <=> last'.args[1] > last'.args[2]
          /\ last'.args[1] > last'.args[2] => idm' = idm]_vars

\* C15: after a successful initialize(pool, reserved_id, next_id) the
\* capacity of the pool is at least next_id + 256, whatever the size of the
\* pool that was adopted.
C15_InitializeCapacity ==
    (last.op = "initialize" /\ last.status = "ok")
        => Capacity(idm) >= last.args[2] + kDefaultGrowth

\* C16: watermark order. After initialize with reserved_id <= next_id, every
\* state reached by alloc_id, free_id, free_local_id and the set-status
\* calls has reserved_id <= next_id <= capacity, and no such call changes
\* reserved_id or lowers the capacity.
C16_WatermarkOrder ==
    [][idm'.initialized
       => /\ idm'.reserved_id <= idm'.next_id
          /\ idm'.next_id <= Capacity(idm')
          /\ idm.initialized
                => /\ idm'.reserved_id = idm.reserved_id
                   /\ Capacity(idm') >= Capacity(idm)]_vars

\* C16's case: a free has just moved next_id down to a reserved_id above 0
\* while a lid of the reserved range sits in the free set.
C16_Witness ==
    /\ last.op \in {"free_id", "free_local_id"}
    /\ idm.reserved_id > 0
    /\ idm.next_id = idm.reserved_id
    /\ (idm.reserved_id - 1) \in idm.free_ids

(***************************************************************************)
(* Further claims about the MemStore.                                      *)
(***************************************************************************)
\* C12: duplicate label. add_vector, whose first step is alloc_id(label),
\* fails with AlreadyExists if and only if the label is in the label map,
\* and such a call leaves the label map, the pool, the free set, next_id,
\* the batches with their contents and snapshot_id as they were.
C12_DuplicateLabel ==
    [][(calls' = calls + 1 /\ last'.op = "add_vector")
       => /\ last'.status = "already_exists" <=> last'.args[2] \in DOMAIN idm.id_map
          /\ last'.status = "already_exists"
                => (idm' = idm /\ store' = store /\ heap' = heap)]_vars

\* C12's case: a second add_vector of a label that is present has failed
\* with AlreadyExists, called with a snapshot id other than the store's.
C12_Witness ==
    /\ last.op = "add_vector"
    /\ last.status = "already_exists"
    /\ last.args[2] \in DOMAIN idm.id_map
    /\ store.snapshot_id # last.args[1]
    /\ Len(store.vector_batches) > 0

\* C17: id round-trip. After add_vector(s, l, v) returns lid, get_id(l)
\* returns that lid, and no later call other than a removal of l (by its
\* label or by its lid) changes what get_id(l) returns: adds, removes and
\* tombstones of other labels do not renumber lids.
C17_IdRoundTrip ==
    [][calls' = calls + 1
       => /\ (last'.op = "add_vector" /\ last'.status = "ok")
                => get_id(idm', last'.args[2]) = [status |-> "ok", value |-> last'.value]
          /\ \A l \in Labels :
                (/\ get_id(idm, l).status = "ok"
                 /\ ~(last'.op = "remove_vector_by_label" /\ last'.args[2] = l)
                 /\ ~(last'.op = "remove_vector_by_id"
                         /\ last'.args[2] = get_id(idm, l).value))
                => get_id(idm', l) = get_id(idm, l)]_vars

\* C17's case: add_vector has just put a label into a lid below the lid of
\* another label that was added earlier and still has its lid.
C17_Witness ==
    /\ last.op = "add_vector"
    /\ last.status = "ok"
    /\ \E l \in Labels \ {last.args[2]} :
          /\ get_id(idm, l).status = "ok"
          /\ get_id(idm, l).value > last.value

\* C18: snapshot stamping. An add_vector or set_vector call that returns ok,
\* and every remove_vector_by_* and tombstone_vector_by_* call, made with
\* snapshot id s leaves snapshot_id() = s; an add_vector or set_vector call
\* that returns an error leaves snapshot_id() as it was.
C18_SnapshotStamping ==
    [][calls' = calls + 1
       => /\ (last'.op \in {"add_vector", "set_vector"} /\ last'.status = "ok")
                => MemStore_snapshot_id(store') = last'.args[1]
          /\ (last'.op \in {"add_vector", "set_vector"} /\ last'.status # "ok")
                => MemStore_snapshot_id(store') = MemStore_snapshot_id(store)
          /\ last'.op \in {"remove_vector_by_label", "remove_vector_by_id",
                            "tombstone_vector_by_label", "tombstone_vector_by_id"}
                => MemStore_snapshot_id(store') = last'.args[1]]_vars

\* C18's case: an add_vector or set_vector call has failed on a store that
\* carries the snapshot id of an earlier mutation, not the one it was given.
C18_Witness ==
    /\ last.op \in {"add_vector", "set_vector"}
    /\ last.status # "ok"
    /\ MemStore_snapshot_id(store) # 0
    /\ MemStore_snapshot_id(store) # last.args[1]

\* C19: get_vector_by_id(lid) and get_vector_by_label(label) return
\* OutOfRange (or NotFound) whenever the lid has no backing storage, that is
\* whenever lid / batch_size is not below the number of batches; whatever
\* an element read outside the batch sequence would hold plays no part.
C19_GetWithoutStorage ==
    store.has_id_manager =>
        \A garbage \in GarbageSpans :
            /\ \A lid \in Lids :
                  lid \div store.option.batch_size >= Len(store.vector_batches)
                      => get_vector_by_id(store, heap, lid, garbage).status = "out_of_range"
            /\ \A label \in Labels :
                  (/\ local_id(idm, label).status = "ok"
                   /\ local_id(idm, label).value \div store.option.batch_size
                          >= Len(store.vector_batches))
                      => get_vector_by_label(store, idm, heap, label, garbage).status
                            \in {"out_of_range", "not_found"}

\* thread t has run the alloc_id of an add_vector that has not returned
\* yet: its mutation of the store is applied in part
Applying(t) == pc[t].at \in {"ensure_space", "memcpy", "stamp"}

\* C20: locking discipline. A writer holds the store's lock in exclusive
\* mode for its whole body, so two writer calls of different threads never
\* interleave: no two threads are between the alloc_id and the return of an
\* add_vector at once.
C20_WritersDoNotInterleave ==
    \A t, u \in Threads : (t # u) => ~(Applying(t) /\ Applying(u))

(***************************************************************************)
(* Claims about the facade and the frames of the calls.                    *)
(***************************************************************************)

\* C30: lid uniqueness at the facade: after any sequence of add_vector,
\* remove_vector_by_label and remove_vector_by_id, no two distinct labels
\* present in the store have the same lid, and add_vector never returns a lid
\* that is mapped to another label.
C30_LidUniqueness ==
    /\ \A l1, l2 \in DOMAIN idm.id_map :
          l1 # l2 => idm.id_map[l1] # idm.id_map[l2]
    /\ (last.op = "add_vector" /\ last.status = "ok") =>
          \A l \in DOMAIN idm.id_map :
              l # last.args[2] => idm.id_map[l] # last.value

\* the slot a status call addresses: the lid given, or the lid the label is
\* mapped to (kInvalidId when the label is absent)
StatusTarget(m, call) ==
    IF call.op = "set_local_id_status"
    THEN call.args[1]
    ELSE IF call.args[1] \in DOMAIN m.id_map
         THEN m.id_map[call.args[1]]
         ELSE kInvalidId

\* the target is found when its lid is a slot of the pool
StatusFound(m, call) ==
    /\ StatusTarget(m, call) # kInvalidId
    /\ StatusTarget(m, call) < Len(m.ids)

\* C28: set_label_status with an absent label and set_local_id_status with a
\* lid that is not found change nothing; when the target is found they change
\* only the status field of that one slot: every slot label, the label map,
\* the free set and next_id are as before.
C28_StatusFrame ==
    [][(calls' = calls + 1 /\ last'.op \in {"set_label_status", "set_local_id_status"}) =>
          IF StatusFound(idm, last')
          THEN idm' = [idm EXCEPT !.ids[StatusTarget(idm, last') + 1].status = last'.args[2]]
          ELSE idm' = idm]_vars

\* a label that is present was given the tombstone status
C28_Witness ==
    /\ last.op = "set_label_status"
    /\ last.args[2] = kTombstone
    /\ StatusFound(idm, last)
    /\ idm.ids[StatusTarget(idm, last) + 1] = [label |-> last.args[1], status |-> kTombstone]

\* one past the highest lid of [reserved_id, lid) whose slot is in use, or
\* reserved_id when there is none
OnePastHighestInUse(m, lid) ==
    LET inuse == {i \in m.reserved_id..(lid - 1) :
                     i < Len(m.ids) /\ m.ids[i + 1].label # kInvalidId}
    IN  IF inuse = {} THEN m.reserved_id ELSE SetMax(inuse) + 1

\* C29: compaction on free: when free_id removes the label at lid L, then if
\* L # next_id - 1, next_id is unchanged and L is added to free_ids; if
\* L = next_id - 1, next_id drops to one past the highest lid in use in
\* [reserved_id, L), or to reserved_id, and no lid >= the new next_id is left
\* in free_ids. free_id of an absent label changes nothing.
C29_CompactionOnFree ==
    [][(calls' = calls + 1 /\ last'.op = "free_id") =>
          LET label == last'.args[1]
              L     == idm.id_map[label]
          IN  IF label \notin DOMAIN idm.id_map
              THEN idm' = idm
              ELSE IF L # idm.next_id - 1
                   THEN idm'.next_id = idm.next_id /\ L \in idm'.free_ids
                   ELSE /\ idm'.next_id = OnePastHighestInUse(idm, L)
                        /\ \A f \in idm'.free_ids : f < idm'.next_id]_vars

\* the label is one of those tombstone_labels returns
InTombstoneLabels(m, label) ==
    \E i \in 1..Len(tombstone_labels(m)) : tombstone_labels(m)[i] = label

\* C27: the tombstone is logical, not physical: tombstone_vector_by_label(l)
\* on a present label sets only the status of l's slot to kTombstone; the
\* label map, the slot labels, the free set, next_id and the stored bytes are
\* unchanged, get_id(l) and get_vector_by_label(l) give the same results as
\* before, and l is in tombstone_labels() from then on until it is removed.
C27_TombstoneIsLogical ==
    [][/\ (/\ calls' = calls + 1
           /\ last'.op = "tombstone_vector_by_label"
           /\ last'.args[2] \in DOMAIN idm.id_map) =>
              LET l == last'.args[2]
              IN  /\ idm' = [idm EXCEPT !.ids[idm.id_map[l] + 1].status = kTombstone]
                  /\ heap' = heap
                  /\ store'.vector_batches = store.vector_batches
                  /\ get_id(idm', l) = get_id(idm, l)
                  /\ \A g \in GarbageSpans :
                        get_vector_by_label(store', idm', heap', l, g) =
                            get_vector_by_label(store, idm, heap, l, g)
                  /\ InTombstoneLabels(idm', l)
       /\ \A l \in DOMAIN idm.id_map :
             (InTombstoneLabels(idm, l) /\ l \in DOMAIN idm'.id_map) =>
                 InTombstoneLabels(idm', l)]_vars

\* C21: in every mutator the write of snapshot_id is the last state change of
\* the call: a step that changes snapshot_id is the step the call returns
\* with, it writes the snapshot of the call and changes nothing else of the
\* store, the identifier manager or the heap, and no step inside a call that
\* does not return changes snapshot_id. So when snapshot_id() = S is seen,
\* every change of the call that stored S, and of the calls before it, has
\* been applied.
C21_SnapshotWrittenLast ==
    [][/\ MemStore_snapshot_id(store') # MemStore_snapshot_id(store) =>
              /\ pc[Writer].at # "idle"
              /\ pc'[Writer] = Idle
              /\ store' = [store EXCEPT !.snapshot_id = pc[Writer].args[1]]
              /\ idm' = idm
              /\ heap' = heap
       /\ pc'[Writer].at # "idle" =>
              MemStore_snapshot_id(store') = MemStore_snapshot_id(store)]_vars

\* a call has mapped its label and materialised a batch and is about to
\* write a snapshot other than the one stored
C21_Witness ==
    /\ pc[Writer].at = "stamp"
    /\ pc[Writer].args[1] # MemStore_snapshot_id(store)
    /\ pc[Writer].args[2] \in DOMAIN idm.id_map
    /\ idm.id_map[pc[Writer].args[2]] = pc[Writer].lid
    /\ store.vector_batches # << >>

(***************************************************************************)
(* Claims about the MetricRegistry and the VectorSpace factory.            *)
(***************************************************************************)

\* the arguments of a lookup are in range
InRange(metric, dt, simd_level) ==
    /\ metric > kUndefinedMetric /\ metric < kMetricTypeMax
    /\ dt > DT_NONE /\ dt < DT_MAX
    /\ simd_level >= SIMD_NONE /\ simd_level < SIMD_MAX

\* every lookup gives in r2 what it gives in r1
SameLookups(r1, r2) ==
    \A metric \in Metrics, dt \in DataTypes, simd_level \in SimdLevels :
        get_metric_operator(r2, metric, dt, simd_level) =
            get_metric_operator(r1, metric, dt, simd_level)

\* C22: registry freeze: once finish_build() has been called, every later
\* register_operator call, with replace false or true and for any cell, fails
\* with FailedPrecondition and leaves every cell and the result of every
\* lookup unchanged, and the registry never becomes mutable again.
C22_RegistryFreeze ==
    [][registry.finish_build =>
          /\ registry'.finish_build
          /\ (calls' = calls + 1 /\ last'.op = "register_operator") =>
                /\ last'.status = "failed_precondition"
                /\ registry'.cells = registry.cells
                /\ SameLookups(registry, registry')]_vars

\* a registration with replace set, of an entity for a cell of a metric never
\* registered, was refused by the frozen registry
C22_Witness ==
    /\ last.op = "register_operator"
    /\ last.status = "failed_precondition"
    /\ registry.finish_build
    /\ last.args[2]
    /\ last.args[1].metric = kPoincare
    /\ InRange(last.args[1].metric, last.args[1].data_type, last.args[1].simd_level)

\* C23: before the freeze, register_operator on a populated (metric, dtype,
\* simd) cell fails with AlreadyExists and leaves the entity of the cell
\* unchanged when replace is false, and overwrites exactly that cell when
\* replace is true; after a successful register the lookup of that cell
\* returns the entity registered and the lookups of all other cells are
\* unchanged.
C23_RegisterPopulatedCell ==
    [][(/\ calls' = calls + 1
        /\ last'.op = "register_operator"
        /\ ~registry.finish_build
        /\ InRange(last'.args[1].metric, last'.args[1].data_type, last'.args[1].simd_level)) =>
          LET op      == last'.args[1]
              replace == last'.args[2]
              cell    == <<op.metric, op.data_type, op.simd_level>>
          IN  /\ (cell \in DOMAIN registry.cells /\ ~replace) =>
                    /\ last'.status = "already_exists"
                    /\ registry'.cells = registry.cells
              /\ (cell \in DOMAIN registry.cells /\ replace) =>
                    /\ last'.status = "ok"
                    /\ registry'.cells = [registry.cells EXCEPT ![cell] = op]
              /\ last'.status = "ok" =>
                    /\ get_metric_operator(registry', op.metric, op.data_type, op.simd_level) =
                           [status |-> "ok", value |-> op]
                    /\ \A metric \in Metrics, dt \in DataTypes, simd_level \in SimdLevels :
                          <<metric, dt, simd_level>> # cell =>
                              get_metric_operator(registry', metric, dt, simd_level) =
                                  get_metric_operator(registry, metric, dt, simd_level)]_vars

\* C24: a lookup with arguments in range returns an error of kind NotFound or
\* Unavailable whenever no entity was registered for the cell, whichever axis
\* is the unpopulated one: the metric, the data type of the metric, or the
\* simd level of the metric and data type.
C24_LookupOfUnpopulatedCell ==
    (/\ last.op = "get_metric_operator"
     /\ InRange(last.args[1], last.args[2], last.args[3])
     /\ <<last.args[1], last.args[2], last.args[3]>> \notin DOMAIN registry.cells) =>
        last.status \in {"not_found", "unavailable"}

\* C25: VectorSpace::create looks up the scalar (SIMD_NONE) entity and then
\* the entity of the simd level asked for; if either lookup fails the factory
\* fails with Unavailable, and it returns a vector space only when both
\* entities exist and the one of the level asked for has supports = TRUE.
\* (Stated for arguments in range and a size that fits int32_t.)
C25_CreateLookups ==
    (/\ last.op = "create"
     /\ last.status # "aborted"
     /\ InRange(last.args[2], last.args[3], last.args[4])) =>
        LET msrs == get_metric_operator(registry, last.args[2], last.args[3], SIMD_NONE)
            mrs  == get_metric_operator(registry, last.args[2], last.args[3], last.args[4])
        IN  /\ (msrs.status # "ok" \/ mrs.status # "ok") => last.status = "unavailable"
            /\ last.status = "ok" =>
                  /\ msrs.status = "ok"
                  /\ mrs.status = "ok"
                  /\ mrs.value.supports
                  /\ last.value.standard_operation = msrs.value
                  /\ last.value.operation = mrs.value

\* C26: for every vector space created with dim >= 0 and an element type of
\* uint8, float16 or float32: vector_byte_size is a multiple of 64,
\* dim * element_size <= vector_byte_size < dim * element_size + 64, and
\* alignment_dim * element_size = vector_byte_size. (The products are compared
\* through quotients, which stay inside int32_t.)
C26_AlignedByteSize ==
    (/\ last.op = "create"
     /\ last.status = "ok"
     /\ last.args[1] >= 0
     /\ last.args[3] \in {DT_UINT8, DT_FLOAT16, DT_FLOAT}) =>
        LET vs  == last.value
            dim == last.args[1]
        IN  /\ vs.element_size = data_type_size(last.args[3]).value
            /\ vs.vector_byte_size >= 0
            /\ vs.vector_byte_size % kAlignmentBytes = 0
            /\ dim <= vs.vector_byte_size \div vs.element_size
            /\ (vs.vector_byte_size - kAlignmentBytes) \div vs.element_size < dim
            /\ vs.alignment_dim = vs.vector_byte_size \div vs.element_size
            /\ vs.vector_byte_size % vs.element_size = 0

(***************************************************************************)
(* Claims about failed calls, capacity and slot accounting.                *)
(***************************************************************************)

\* C31: a failed add_vector is atomic. An add_vector that returns OutOfRange
\* (the allocated lid is >= max_elements) or Unavailable (a batch could not
\* be allocated) leaves the label out of the label map, size() as it was, no
\* lid allocated, and next_id and free_ids as they were before the call.
C31_FailedAddIsAtomic ==
    [][(/\ calls' = calls + 1
        /\ last'.op = "add_vector"
        /\ last'.status \in {"out_of_range", "unavailable"})
       => /\ last'.args[2] \notin DOMAIN idm'.id_map
          /\ Cardinality(DOMAIN idm'.id_map) = Cardinality(DOMAIN idm.id_map)
          /\ idm'.ids = idm.ids
          /\ idm'.next_id = idm.next_id
          /\ idm'.free_ids = idm.free_ids]_vars

\* C32: capacity is governed by max_elements. On a store made by
\* MemStore::init, add_vector of a label that is not present, called while
\* fewer than max_elements - reserved labels are live, does not fail for want
\* of a lid: it returns neither ResourceExhausted nor OutOfRange (it succeeds
\* unless the allocation of a batch fails). The pool's capacity, fixed at
\* initialization at reserved + 1 + kDefaultGrowth slots, is no limit below
\* max_elements.
C32_CapacityIsMaxElements ==
    [][(/\ calls' = calls + 1
        /\ last'.op = "add_vector"
        /\ last'.args[2] \notin DOMAIN idm.id_map
        /\ Cardinality(DOMAIN idm.id_map)
              < store.option.max_elements - store.option.reserved)
       => last'.status \in {"ok", "unavailable"}]_vars

\* MemStore::size(): the number of labels in the label map
MemStore_size(m) == Cardinality(DOMAIN m.id_map)

\* MemStore::free_vector_size(): the number of lids in the free set
free_vector_size(m) == Cardinality(m.free_ids)

\* the labels the label map sends to lid
LabelsAt(m, lid) == {l \in DOMAIN m.id_map : m.id_map[l] = lid}

\* C33: slot accounting. After MemStore::init and any sequence of add_vector,
\* set_vector, remove_vector_by_label and tombstone_vector_by_label,
\* size() + free_vector_size() = next_id - reserved_id: every lid of the
\* active range [reserved_id, next_id) is either the lid of exactly one label
\* or in free_ids, never both and never neither, and no label or free lid
\* lies outside that range.
C33_SlotAccounting ==
    store.has_id_manager =>
        /\ MemStore_size(idm) + free_vector_size(idm) = idm.next_id - idm.reserved_id
        /\ \A lid \in idm.reserved_id..(idm.next_id - 1) :
              \/ lid \in idm.free_ids /\ LabelsAt(idm, lid) = {}
              \/ lid \notin idm.free_ids /\ Cardinality(LabelsAt(idm, lid)) = 1
        /\ \A lid \in idm.free_ids : lid >= idm.reserved_id /\ lid < idm.next_id
        /\ \A l \in DOMAIN idm.id_map :
              idm.id_map[l] >= idm.reserved_id /\ idm.id_map[l] < idm.next_id

\* C33's case: a remove_vector_by_label has left a free lid below the lid of
\* a label that is still present.
C33_Witness ==
    /\ last.op = "remove_vector_by_label"
    /\ idm.free_ids # {}
    /\ \E l \in DOMAIN idm.id_map : \E f \in idm.free_ids : f < idm.id_map[l]

\* the state a full drain is said to leave: next_id is back at reserved_id,
\* the free set is empty, and the alloc_id of the next add_vector hands out
\* reserved_id whatever the label
Compacted(m) ==
    /\ m.next_id = m.reserved_id
    /\ m.free_ids = {}
    /\ \A l \in Labels :
          alloc_id(m, l).status = "ok" /\ alloc_id(m, l).value = m.reserved_id

Range(seq) == {seq[i] : i \in 1..Len(seq)}

\* C35: free slots carry no status. In every reachable state, also after
\* tombstone_vector_by_id on any lid below the capacity, every slot whose
\* label is the sentinel has status kNoneStatus; so the lid an add_vector has
\* just returned has status kNoneStatus, the label just added is not counted
\* by tombstones() nor listed by tombstone_local_ids() or tombstone_labels(),
\* and tombstone_labels() never contains the sentinel.
C35_FreeSlotsCarryNoStatus ==
    store.has_id_manager =>
        /\ \A i \in 1..Len(idm.ids) :
              idm.ids[i].label = kInvalidId => idm.ids[i].status = kNoneStatus
        /\ (last.op = "add_vector" /\ last.status = "ok") =>
              /\ idm.ids[last.value + 1].status = kNoneStatus
              /\ last.value \notin Range(tombstone_local_ids(idm))
              /\ last.args[2] \notin Range(tombstone_labels(idm))
              /\ tombstones(idm) = 0
                    \/ \E l \in DOMAIN idm.id_map \ {last.args[2]} :
                          idm.ids[idm.id_map[l] + 1].status = kTombstone
        /\ kInvalidId \notin Range(tombstone_labels(idm))

\* C36: a failed register_operator leaves the registry observably unchanged.
\* If register_operator returns InvalidArgument (metric, data type or simd
\* level out of range) or AlreadyExists, then for every (metric, data type,
\* simd level) get_metric_operator returns what it returned before the call,
\* the entity and the kind of error alike.
C36_FailedRegisterChangesNothing ==
    [][(/\ calls' = calls + 1
        /\ last'.op = "register_operator"
        /\ last'.status \in {"invalid_argument", "already_exists"})
       => SameLookups(registry, registry')]_vars

\* C37: a scalar reference exists for every fast path. In the registry as the
\* built-in population leaves it, every (metric, data type) that has an
\* entity at a simd level above SIMD_NONE has one at SIMD_NONE too, so
\* VectorSpace::create of a combination whose fast-path entity is registered
\* does not fail on the scalar lookup.
C37_ScalarReferenceExists ==
    \A with_sse3 \in BOOLEAN :
        registry = MetricRegistry_ctor(with_sse3) =>
            \A metric \in Metrics, dt \in DataTypes, level \in SimdLevels :
                (/\ level > SIMD_NONE
                 /\ get_metric_operator(registry, metric, dt, level).status = "ok")
                => /\ get_metric_operator(registry, metric, dt, SIMD_NONE).status = "ok"
                   /\ \A dim \in {d \in Dims : ~SizeOverflows(data_type_size(dt).value, d)} :
                         VectorSpace_create(registry, dim, metric, dt, level, FALSE).status
                             = "ok"

(***************************************************************************)
(* Claims about the distance kernels.                                      *)
(***************************************************************************)
\* the dot product of two vectors of the same length
RECURSIVE Dot(_, _)
Dot(a, b) ==
    IF a = << >> THEN 0 ELSE Head(a) * Head(b) + Dot(Tail(a), Tail(b))

\* x.num / sqrt(x.rad) and y.num / sqrt(y.rad) are the same number
SameQuotient(x, y) ==
    /\ (x.num > 0) = (y.num > 0)
    /\ (x.num < 0) = (y.num < 0)
    /\ x.num * x.num * y.rad = y.num * y.num * x.rad

\* C38: the scalar cosine kernel is symmetric and computes the true dot
\* product. For integer-valued vectors a and b of the same length, also of
\* four elements and more, which enter the loop unrolled four ways, the
\* numerator simple_cosine_distance accumulates is the sum over i of
\* a[i] * b[i], and simple_cosine_distance(a, b) = simple_cosine_distance(b, a).
C38_CosineIsSymmetric ==
    last.op = "simple_cosine_distance" =>
        LET a == last.args[1]
            b == last.args[2]
        IN  /\ last.value.sum = Dot(a, b)
            /\ SameQuotient(last.value.value, simple_cosine_distance(b, a).value)

====
